---- MODULE Spec2Model ----
(***************************************************************************)
(* A model of the finite-element toolkit: the through-thickness Newton     *)
(* solve and the random deformation gradient of operations.py, the         *)
(* element lifecycle, load steps and shape-function lookups of             *)
(* elements.py, the Neo-Hookean law of constitutive_models.py and the      *)
(* driver of model_io.py.                                                  *)
(*                                                                         *)
(* Numbers are fixed-point integers.  A stretch ratio (entry [2][2] of the *)
(* deformation gradient handed to the Newton solve) is counted in units of *)
(* 1/StretchScale, so that the literal 1e-6 of the code is the integer 1.  *)
(* Indices are 0-based as in the source.                                   *)
(***************************************************************************)
EXTENDS Integers, Sequences, FiniteSets, TLC

VARIABLES
    \* operations.newton_method_thickness_stretch_ratio
    nm_pc,                  \* position in the function
    deformation_gradient,   \* the caller's 3x3 matrix, mutated in place
    max_iterations,         \* parameter
    stretch_ratio,          \* local
    current_iteration,      \* local
    nm_P33,                 \* local P33 of the last evaluation
    nm_error,               \* local error of the last evaluation
    nm_evaluations,         \* number of stress evaluations performed
    nm_exception,           \* the error raised, or None
    \* operations.generate_random_deformation_gradient
    rd_pc,                  \* position in the function
    plane_stress,           \* parameter
    uniaxial,               \* parameter
    equibiaxial,            \* parameter
    det,                    \* local
    random_deformation,     \* local, in units of 1/SampleDen
    rd_sample,              \* the sample that left the rejection loop
    \* a lookup of a shape function or of a shape-function derivative
    lk_call,                \* the call: method, class and arguments
    lk_result,              \* what the call did: a value, None, or an error raised
    \* an element (elements.BaseElement and its subclasses) and its driver
    el_pc,                  \* position in the method being run, or "idle"
    el_method,              \* the method being run or last run
    el_class,               \* the element's class
    quadrature_class,       \* fixed property
    degrees_of_freedom,     \* fixed property
    thickness,              \* fixed property
    nodes,                  \* list of nodes
    quadrature_points,      \* list of quadrature points
    jacobian_matrix,
    jacobian_matrix_inverse,
    reference_configuration,
    strain_energy,
    internal_force_array,
    stiffness_matrix,
    external_force_array,
    el_index,               \* the loop index of the method being run
    el_trace,               \* what the method being run has done so far, in order
    el_calls,               \* calls of create_quadrature_points made so far
    deformation,            \* deformation steps the driver has applied to the nodes
    el_load_call,           \* the last call of calculate_external_force_array: arguments and locals
    \* a call of a method of constitutive_models.Neohookean
    cm_call,                \* the call: method and arguments
    cm_result,              \* what the call returned or raised
    \* the driver (model_io.run and the scenario it invokes)
    dr_pc,                  \* position in the driver
    dr_scenarios,           \* the scenarios run() has invoked, in order
    f11_values,             \* local of uniaxial_deformation, in tenths
    dr_index,               \* position of the for loop in f11_values
    dr_random_deformation,  \* local random_deformation, in tenths
    p11_values,             \* local of uniaxial_deformation
    dr_bodies,              \* the body.DeformationGradient objects constructed
    dr_evaluations,         \* calls of first_piola_kirchhoff_stress made
    dr_exception            \* the error that ended the run, or none

nm_vars == <<nm_pc, deformation_gradient, max_iterations, stretch_ratio,
             current_iteration, nm_P33, nm_error, nm_evaluations, nm_exception>>

rd_vars == <<rd_pc, plane_stress, uniaxial, equibiaxial, det, random_deformation,
             rd_sample>>

lk_vars == <<lk_call, lk_result>>

el_vars == <<el_pc, el_method, el_class, quadrature_class, degrees_of_freedom,
             thickness, nodes, quadrature_points, jacobian_matrix,
             jacobian_matrix_inverse, reference_configuration, strain_energy,
             internal_force_array, stiffness_matrix, external_force_array,
             el_index, el_trace, el_calls, deformation, el_load_call>>

cm_vars == <<cm_call, cm_result>>

dr_vars == <<dr_pc, dr_scenarios, f11_values, dr_index, dr_random_deformation,
             p11_values, dr_bodies, dr_evaluations, dr_exception>>

vars == <<nm_vars, rd_vars, lk_vars, el_vars, cm_vars, dr_vars>>

\* The placeholder of a local that its function has not assigned yet.  The code
\* cannot read such a local, and nothing here reads one before its assignment.
Unassigned == 0

\* No error has been raised.
NoException == [type |-> "None"]

Abs(x) == IF x < 0 THEN -x ELSE x

(***************************************************************************)
(* Bounds of the model.                                                    *)
(***************************************************************************)
MaxIterationsBound == 2     \* max_iterations is drawn from 0..MaxIterationsBound
MaxStress == 2              \* P33 is drawn from -MaxStress..MaxStress
MaxTangent == 2             \* C3333 is drawn from -MaxTangent..MaxTangent, not 0
SampleDen == 8              \* numpy.random.rand is drawn on a grid of 1/SampleDen
HalfDen == 3                \* parametric positions lie on a grid of 1/(2*HalfDen)
IndexMargin == 2            \* indices are drawn up to IndexMargin outside their range
MaxDeformations == 2        \* deformation steps the driver applies to the nodes
MaxCreateCalls == 2         \* calls of create_quadrature_points on one element

(***************************************************************************)
(* Program constants.                                                      *)
(***************************************************************************)
StretchScale == 1000000     \* 1e-6 is one unit of stretch
DefaultMaxIterations == 15
NEWTON_METHOD_TOLERANCE == 2

Matrix3(r0, r1, r2) == [i \in 0..2 |-> IF i = 0 THEN r0 ELSE IF i = 1 THEN r1 ELSE r2]
Row3(a, b, c) == [j \in 0..2 |-> IF j = 0 THEN a ELSE IF j = 1 THEN b ELSE c]

\* A matrix variable that is not bound yet.
Unbound3 == Matrix3(Row3(0, 0, 0), Row3(0, 0, 0), Row3(0, 0, 0))

(***************************************************************************)
(* The state of a function that is not being run.                          *)
(***************************************************************************)
NewtonIdle ==
    /\ nm_pc = "idle"
    /\ deformation_gradient = Unbound3
    /\ max_iterations = 0
    /\ stretch_ratio = Unassigned
    /\ current_iteration = Unassigned
    /\ nm_P33 = Unassigned
    /\ nm_error = Unassigned
    /\ nm_evaluations = 0
    /\ nm_exception = NoException

RandomIdle ==
    /\ rd_pc = "idle"
    /\ plane_stress = FALSE
    /\ uniaxial = FALSE
    /\ equibiaxial = FALSE
    /\ det = 0
    /\ random_deformation = Unbound3
    /\ rd_sample = Unbound3

LookupIdle ==
    /\ lk_call = [method |-> "None"]
    /\ lk_result = [kind |-> "None"]

\* A field that holds None, and a field that holds a value.
NoneValue == [is |-> "None"]
Some(v) == [is |-> "value", value |-> v]

ElementIdle ==
    /\ el_pc = "not constructed"
    /\ el_method = "None"
    /\ el_class = "None"
    /\ quadrature_class = NoneValue
    /\ degrees_of_freedom = 0
    /\ thickness = 0
    /\ nodes = <<>>
    /\ quadrature_points = <<>>
    /\ jacobian_matrix = NoneValue
    /\ jacobian_matrix_inverse = NoneValue
    /\ reference_configuration = NoneValue
    /\ strain_energy = NoneValue
    /\ internal_force_array = NoneValue
    /\ stiffness_matrix = NoneValue
    /\ external_force_array = NoneValue
    /\ el_index = 0
    /\ el_trace = <<>>
    /\ el_calls = 0
    /\ deformation = 0
    /\ el_load_call = NoneValue

MaterialIdle ==
    /\ cm_call = [method |-> "None"]
    /\ cm_result = [kind |-> "None"]

DriverIdle ==
    /\ dr_pc = "idle"
    /\ dr_scenarios = <<>>
    /\ f11_values = <<>>
    /\ dr_index = 0
    /\ dr_random_deformation = Unbound3
    /\ p11_values = <<>>
    /\ dr_bodies = <<>>
    /\ dr_evaluations = 0
    /\ dr_exception = NoException

(***************************************************************************)
(* The Newton solve.  The constitutive model is a parameter of the         *)
(* function: what its first_piola_kirchhoff_stress and tangent_moduli      *)
(* return at a trial deformation gradient is an input, drawn per           *)
(* evaluation.  The Neohookean stress takes math.log of the determinant,   *)
(* which raises ValueError when the determinant is not positive.           *)
(***************************************************************************)
\* numpy.linalg.det of a matrix whose [2][2] entry is in stretch units and
\* whose other entries are whole numbers; the result is in stretch units.
DetStretchUnits(F) ==
      F[0][0] * (F[1][1] * F[2][2] - F[1][2] * F[2][1] * StretchScale)
    - F[0][1] * (F[1][0] * F[2][2] - F[1][2] * F[2][0] * StretchScale)
    + F[0][2] * (F[1][0] * F[2][1] - F[1][1] * F[2][0]) * StretchScale

StressValues == (-MaxStress)..MaxStress
TangentValues == ((-MaxTangent)..MaxTangent) \ {0}

\* The matrices the solve is called with: in-plane blocks, out-of-plane
\* entries, and whatever stretch the caller left in [2][2].
IncomingStretch == {0, 3 * StretchScale}
InputGradients ==
    UNION { { Matrix3(Row3(1, 0, 0), Row3(0, 1, 0), Row3(0, 0, s)),
              Matrix3(Row3(2, 0, 0), Row3(0, 1, 0), Row3(0, 0, s)),
              Matrix3(Row3(1, 1, 0), Row3(0, 2, 0), Row3(0, 0, s)),
              Matrix3(Row3(0, 1, 0), Row3(1, 0, 0), Row3(0, 0, s)),
              Matrix3(Row3(1, 0, 1), Row3(0, 1, 0), Row3(1, 0, s)) }
            : s \in IncomingStretch }

IterationLimits == (0..MaxIterationsBound) \cup {DefaultMaxIterations}

NewtonInit ==
    /\ nm_pc = "start"
    /\ deformation_gradient \in InputGradients
    /\ max_iterations \in IterationLimits
    /\ stretch_ratio = Unassigned
    /\ current_iteration = Unassigned
    /\ nm_P33 = Unassigned
    /\ nm_error = Unassigned
    /\ nm_evaluations = 0
    /\ nm_exception = NoException

\* operations.py:129-131
NewtonStart ==
    /\ nm_pc = "start"
    /\ stretch_ratio' = StretchScale
    /\ current_iteration' = 0
    /\ nm_pc' = "loop"
    /\ UNCHANGED <<deformation_gradient, max_iterations, nm_P33, nm_error,
                   nm_evaluations, nm_exception>>
    /\ UNCHANGED <<rd_vars, lk_vars, el_vars, cm_vars, dr_vars>>

\* A comparison that also accepts an error equal to the tolerance.
ConvergedInclusive(error) == error <= NEWTON_METHOD_TOLERANCE

\* The comparison of line 141.
Converged(error) == error < NEWTON_METHOD_TOLERANCE

\* A write of the trial stretch that also clears the rest of the third row.
WithStretchRowCleared(F, stretch) ==
    [F EXCEPT ![2] = Row3(0, 0, stretch)]

\* operations.py:135: deformation_gradient[2][2] = stretch_ratio, in place
WithStretch(F, stretch) == [F EXCEPT ![2][2] = stretch]

\* operations.py:135-142: write the trial stretch, evaluate P33, test it.
NewtonTrial ==
    /\ nm_pc = "loop"
    /\ deformation_gradient' = WithStretch(deformation_gradient, stretch_ratio)
    /\ nm_evaluations' = nm_evaluations + 1
    /\ IF DetStretchUnits(deformation_gradient') <= 0
       THEN \* math.log raises ValueError (constitutive_models.py:57)
            /\ nm_pc' = "value_error"
            /\ UNCHANGED <<nm_P33, nm_error>>
       ELSE \E P33 \in StressValues :
                /\ nm_P33' = P33
                /\ nm_error' = Abs(0 - P33)
                /\ nm_pc' = IF Converged(nm_error') THEN "returned" ELSE "update"
    /\ UNCHANGED <<max_iterations, stretch_ratio, current_iteration, nm_exception>>
    /\ UNCHANGED <<rd_vars, lk_vars, el_vars, cm_vars, dr_vars>>

\* The guard of line 151.
Unphysical(stretch) == stretch < 0

\* operations.py:147-152
UpdatedStretch(stretch, P33, C3333) ==
    LET delta_stretch == -((P33 * StretchScale) \div C3333)
        updated == stretch + delta_stretch
    IN  IF Unphysical(updated) THEN 1 ELSE updated

\* A limit test that lets one more iteration through.
LimitReachedLate(iteration, limit) == iteration = limit + 1

\* A limit test that stops one iteration short.
LimitReachedEarly(iteration, limit) == iteration + 1 >= limit

\* The comparison of line 154.
LimitReached(iteration, limit) == iteration = limit

\* operations.py:144-160: correct the stretch, then raise or count.
NewtonUpdate ==
    /\ nm_pc = "update"
    /\ \E C3333 \in TangentValues :
           stretch_ratio' = UpdatedStretch(stretch_ratio, nm_P33, C3333)
    /\ IF LimitReached(current_iteration, max_iterations)
       THEN /\ nm_exception' = [type |-> "NewtonMethodMaxIterationsExceededError",
                                iterations |-> max_iterations,
                                error |-> nm_error,
                                tolerance |-> NEWTON_METHOD_TOLERANCE]
            /\ nm_pc' = "raised"
            /\ UNCHANGED current_iteration
       ELSE /\ current_iteration' = current_iteration + 1
            /\ nm_pc' = "loop"
            /\ UNCHANGED nm_exception
    /\ UNCHANGED <<deformation_gradient, max_iterations, nm_P33, nm_error,
                   nm_evaluations>>
    /\ UNCHANGED <<rd_vars, lk_vars, el_vars, cm_vars, dr_vars>>

NewtonDone == nm_pc \in {"returned", "raised", "value_error"}

NextNewton == NewtonStart \/ NewtonTrial \/ NewtonUpdate

InitNewton ==
    NewtonInit /\ RandomIdle /\ LookupIdle /\ ElementIdle /\ MaterialIdle /\ DriverIdle

SpecNewton == InitNewton /\ [][NextNewton]_vars

\* The loop is sequential code: a step that can be taken is taken.  Every
\* step moves the control position, so fairness is stated on nm_pc.
SpecNewtonFair == SpecNewton /\ WF_nm_pc(NextNewton)

(***************************************************************************)
(* C1: whenever the Newton solve returns, the transverse stress P33 that   *)
(* was evaluated at the deformation gradient whose [2][2] entry is the     *)
(* returned stretch is below NEWTON_METHOD_TOLERANCE in absolute value.    *)
(***************************************************************************)
C1_ReturnedStretchIsConverged ==
    nm_pc = "returned" =>
        /\ deformation_gradient[2][2] = stretch_ratio
        /\ Abs(nm_P33) < NEWTON_METHOD_TOLERANCE

\* The solve returned after at least one correction of the stretch.
C1_Witness ==
    /\ nm_pc = "returned"
    /\ current_iteration > 0
    /\ stretch_ratio # StretchScale

(***************************************************************************)
(* C2: the Newton solve always terminates.  It evaluates the stress at     *)
(* most max_iterations + 1 times, it returns only a converged stretch, and *)
(* it raises the iteration-limit error exactly after max_iterations + 1    *)
(* evaluations none of which was below tolerance.                          *)
(***************************************************************************)
C2_NewtonTerminates ==
    /\ <>NewtonDone
    /\ [](nm_evaluations <= max_iterations + 1)
    /\ [](nm_pc = "returned" => Converged(nm_error))
    /\ [](nm_pc = "raised" =>
              /\ nm_evaluations = max_iterations + 1
              /\ ~Converged(nm_error)
              /\ nm_exception.type = "NewtonMethodMaxIterationsExceededError")

\* The default budget of 15 is exhausted and the error is raised.
C2_Witness ==
    /\ nm_pc = "raised"
    /\ max_iterations = DefaultMaxIterations
    /\ nm_evaluations = DefaultMaxIterations + 1

(***************************************************************************)
(* C3: every stretch the Newton solve holds after an update, and so every  *)
(* value it writes to deformation_gradient[2][2] for a trial evaluation,   *)
(* is strictly positive (a non-positive stretch, 0 included, is replaced   *)
(* by 1e-6).                                                               *)
(***************************************************************************)
C3_TrialStretchIsPositive ==
    /\ (nm_pc = "loop" => stretch_ratio > 0)
    /\ (nm_evaluations > 0 => deformation_gradient[2][2] > 0)

(***************************************************************************)
(* generate_random_deformation_gradient.  numpy.eye(3) + numpy.random.rand *)
(* (3, 3) is a matrix whose diagonal lies in [1, 2) and whose other        *)
(* entries lie in [0, 1); entries are counted in units of 1/SampleDen.     *)
(***************************************************************************)
DiagonalSamples == {0, 1}
OffDiagonalSamples == {0, SampleDen - 2}

\* numpy.eye(3) + numpy.random.rand(3, 3)
RandomSamples ==
    { [i \in 0..2 |-> [j \in 0..2 |->
          IF i = j THEN SampleDen + d[i] ELSE o[i][j]]] :
      d \in [0..2 -> DiagonalSamples],
      o \in [0..2 -> [0..2 -> OffDiagonalSamples]] }

\* numpy.linalg.det, in units of 1/SampleDen^3
Det3(F) ==
      F[0][0] * (F[1][1] * F[2][2] - F[1][2] * F[2][1])
    - F[0][1] * (F[1][0] * F[2][2] - F[1][2] * F[2][0])
    + F[0][2] * (F[1][0] * F[2][1] - F[1][1] * F[2][0])

RandomInit ==
    /\ rd_pc = "loop"
    /\ plane_stress \in BOOLEAN
    /\ uniaxial \in BOOLEAN
    /\ equibiaxial \in BOOLEAN
    /\ det = -1
    /\ random_deformation = Unbound3
    /\ rd_sample = Unbound3

\* The loop condition of line 47.
Rejected(d) == d < 0

\* operations.py:47-49: one pass of the rejection loop.
RandomDraw ==
    /\ rd_pc = "loop"
    /\ Rejected(det)
    /\ \E sample \in RandomSamples :
           /\ random_deformation' = sample
           /\ det' = Det3(sample)
    /\ UNCHANGED <<rd_pc, plane_stress, uniaxial, equibiaxial, rd_sample>>
    /\ UNCHANGED <<nm_vars, lk_vars, el_vars, cm_vars, dr_vars>>

\* A restructuring that tests equibiaxial before uniaxial.
RestructuredEquibiaxialFirst(F, ps, uni, equi) ==
    LET planar == [F EXCEPT ![0][2] = 0, ![1][2] = 0, ![2][0] = 0, ![2][1] = 0,
                            ![2][2] = SampleDen]
    IN  IF ~ps THEN F
        ELSE IF equi
             THEN [planar EXCEPT ![0][1] = 0, ![1][0] = 0, ![1][1] = planar[0][0]]
        ELSE IF uni
             THEN [planar EXCEPT ![0][1] = 0, ![1][0] = 0, ![1][1] = SampleDen]
        ELSE planar

\* operations.py:51-64
Restructured(F, ps, uni, equi) ==
    LET planar == [F EXCEPT ![0][2] = 0, ![1][2] = 0, ![2][0] = 0, ![2][1] = 0,
                            ![2][2] = SampleDen]
    IN  IF ~ps THEN F
        ELSE IF uni
             THEN [planar EXCEPT ![0][1] = 0, ![1][0] = 0, ![1][1] = SampleDen]
        ELSE IF equi
             THEN [planar EXCEPT ![0][1] = 0, ![1][0] = 0, ![1][1] = planar[0][0]]
        ELSE planar

\* operations.py:47, 50-65: the loop is left, the matrix restructured and returned.
RandomReturn ==
    /\ rd_pc = "loop"
    /\ ~Rejected(det)
    /\ rd_sample' = random_deformation
    /\ random_deformation' =
           Restructured(random_deformation, plane_stress, uniaxial, equibiaxial)
    /\ rd_pc' = "returned"
    /\ UNCHANGED <<plane_stress, uniaxial, equibiaxial, det>>
    /\ UNCHANGED <<nm_vars, lk_vars, el_vars, cm_vars, dr_vars>>

NextRandom == RandomDraw \/ RandomReturn

InitRandom ==
    RandomInit /\ NewtonIdle /\ LookupIdle /\ ElementIdle /\ MaterialIdle /\ DriverIdle

SpecRandom == InitRandom /\ [][NextRandom]_vars

(***************************************************************************)
(* C4: the matrix generate_random_deformation_gradient returns has a       *)
(* determinant strictly greater than 0, for every combination of the       *)
(* flags; a sample whose determinant is exactly 0 does not leave the       *)
(* rejection loop.                                                         *)
(***************************************************************************)
C4_ReturnedDeterminantIsPositive ==
    rd_pc = "returned" =>
        /\ Det3(rd_sample) > 0
        /\ Det3(random_deformation) > 0

(***************************************************************************)
(* C5: the structure of the returned matrix is determined by the flags.    *)
(* With plane_stress, [0][2], [1][2], [2][0], [2][1] are 0 and [2][2] is   *)
(* 1; with plane_stress and uniaxial, also [0][1] = [1][0] = 0 and [1][1]  *)
(* = 1; with plane_stress and equibiaxial but not uniaxial, also [0][1] =  *)
(* [1][0] = 0 and [1][1] = [0][0]; without plane_stress the accepted       *)
(* sample is returned unmodified whatever the other two flags are.         *)
(***************************************************************************)
C5_StructureFollowsFlags ==
    rd_pc = "returned" =>
        LET F == random_deformation
        IN  /\ plane_stress =>
                  /\ F[0][2] = 0 /\ F[1][2] = 0 /\ F[2][0] = 0 /\ F[2][1] = 0
                  /\ F[2][2] = SampleDen
                  /\ F[0][0] = rd_sample[0][0]
            /\ (plane_stress /\ uniaxial) =>
                  /\ F[0][1] = 0 /\ F[1][0] = 0
                  /\ F[1][1] = SampleDen
            /\ (plane_stress /\ equibiaxial /\ ~uniaxial) =>
                  /\ F[0][1] = 0 /\ F[1][0] = 0
                  /\ F[1][1] = F[0][0]
            /\ (plane_stress /\ ~uniaxial /\ ~equibiaxial) =>
                  /\ F[0][1] = rd_sample[0][1] /\ F[1][0] = rd_sample[1][0]
                  /\ F[1][1] = rd_sample[1][1]
            /\ ~plane_stress => F = rd_sample

\* Both uniaxial and equibiaxial are asked for under plane stress, on a
\* sample whose [0][0] is not 1 and whose in-plane shear is not 0.
C5_Witness ==
    /\ rd_pc = "returned"
    /\ plane_stress /\ uniaxial /\ equibiaxial
    /\ rd_sample[0][0] # SampleDen
    /\ rd_sample[0][1] # 0

(***************************************************************************)
(* Shape functions and their derivatives (elements.py).  A parametric      *)
(* position is a pair of integers in units of 1/PosDen.  A shape-function  *)
(* value is counted in units of 1/ShapeScale and a derivative in units of  *)
(* 1/PosDen, for both element classes.                                     *)
(***************************************************************************)
PosDen == 2 * HalfDen
ShapeScale == PosDen * PosDen

Linear == "TriangularLinearElement"
Quadratic == "TriangularQuadraticElement"
ElementClasses == {Linear, Quadratic}

\* elements.py:405-406, 486-487
Dimension(cls) == 2
NodeQuantity(cls) == IF cls = Linear THEN 3 ELSE 6

\* Parametric points inside and outside the reference triangle.
Positions ==
    { <<x, y>> : x \in (0 - HalfDen)..(PosDen + HalfDen),
                 y \in (0 - HalfDen)..(PosDen + HalfDen) }

\* What a call does.
Returned(v) == [kind |-> "return", value |-> v]
ReturnedNone(constructed) == [kind |-> "return_none", constructed |-> constructed]
Raised(e) == [kind |-> "raise", error |-> e]

InvalidNodeError(node_index, node_quantity) ==
    [type |-> "InvalidNodeError", node_index |-> node_index,
     node_quantity |-> node_quantity]
InvalidCoordinateError(coordinate_index, coordinate_quantity) ==
    [type |-> "InvalidCoordinateError", coordinate_index |-> coordinate_index,
     coordinate_quantity |-> coordinate_quantity]

\* Linear shape functions whose first function has a sign wrong.
LinearShapeFunctionsSignSlip(node_index, position) ==
    IF node_index = 0 THEN Returned((PosDen - position[1] + position[2]) * PosDen)
    ELSE IF node_index = 1 THEN Returned(position[1] * PosDen)
    ELSE IF node_index = 2 THEN Returned(position[2] * PosDen)
    ELSE ReturnedNone(InvalidNodeError(node_index, 3))

\* Linear shape functions that raise the error they construct.
LinearShapeFunctionsRaising(node_index, position) ==
    IF node_index = 0 THEN Returned((PosDen - position[1] - position[2]) * PosDen)
    ELSE IF node_index = 1 THEN Returned(position[1] * PosDen)
    ELSE IF node_index = 2 THEN Returned(position[2] * PosDen)
    ELSE Raised(InvalidNodeError(node_index, NodeQuantity(Linear)))

\* TriangularLinearElement.shape_functions
LinearShapeFunctions(node_index, position) ==
    IF node_index = 0 THEN Returned((PosDen - position[1] - position[2]) * PosDen)
    ELSE IF node_index = 1 THEN Returned(position[1] * PosDen)
    ELSE IF node_index = 2 THEN Returned(position[2] * PosDen)
    ELSE ReturnedNone(InvalidNodeError(node_index, NodeQuantity(Linear)))

\* Quadratic shape functions whose first midside function has half its weight.
QuadraticShapeFunctionsMidsideHalved(node_index, position) ==
    IF node_index = 0
    THEN Returned(2 * (PosDen - position[1] - position[2])
                    * (HalfDen - position[1] - position[2]))
    ELSE IF node_index = 1 THEN Returned(2 * position[1] * (position[1] - HalfDen))
    ELSE IF node_index = 2 THEN Returned(2 * position[2] * (position[2] - HalfDen))
    ELSE IF node_index = 3
    THEN Returned(2 * position[1] * (PosDen - position[1] - position[2]))
    ELSE IF node_index = 4 THEN Returned(4 * position[1] * position[2])
    ELSE IF node_index = 5
    THEN Returned(4 * position[2] * (PosDen - position[1] - position[2]))
    ELSE ReturnedNone(InvalidNodeError(node_index, 6))

\* TriangularQuadraticElement.shape_functions
QuadraticShapeFunctions(node_index, position) ==
    IF node_index = 0
    THEN Returned(2 * (PosDen - position[1] - position[2])
                    * (HalfDen - position[1] - position[2]))
    ELSE IF node_index = 1 THEN Returned(2 * position[1] * (position[1] - HalfDen))
    ELSE IF node_index = 2 THEN Returned(2 * position[2] * (position[2] - HalfDen))
    ELSE IF node_index = 3
    THEN Returned(4 * position[1] * (PosDen - position[1] - position[2]))
    ELSE IF node_index = 4 THEN Returned(4 * position[1] * position[2])
    ELSE IF node_index = 5
    THEN Returned(4 * position[2] * (PosDen - position[1] - position[2]))
    ELSE ReturnedNone(InvalidNodeError(node_index, NodeQuantity(Quadratic)))

shape_functions(cls, node_index, position) ==
    IF cls = Linear THEN LinearShapeFunctions(node_index, position)
    ELSE QuadraticShapeFunctions(node_index, position)

\* A coordinate test whose last branch answers every other index.
ByCoordinateUnchecked(cls, coordinate_index, d0, d1) ==
    IF coordinate_index = 0 THEN Returned(d0) ELSE Returned(d1)

\* The value for a coordinate index, or the error of the inner else branch.
ByCoordinate(cls, coordinate_index, d0, d1) ==
    IF coordinate_index = 0 THEN Returned(d0)
    ELSE IF coordinate_index = 1 THEN Returned(d1)
    ELSE Raised(InvalidCoordinateError(coordinate_index, Dimension(cls)))

\* Linear shape function derivatives whose second function varies with the
\* position.
LinearShapeFunctionDerivativesVarying(node_index, position, coordinate_index) ==
    IF node_index = 0
    THEN ByCoordinate(Linear, coordinate_index, -1 * PosDen, -1 * PosDen)
    ELSE IF node_index = 1
    THEN ByCoordinate(Linear, coordinate_index, 4 * position[1] - 1 * PosDen, 0)
    ELSE IF node_index = 2
    THEN ByCoordinate(Linear, coordinate_index, 0, 1 * PosDen)
    ELSE Raised(InvalidNodeError(node_index, NodeQuantity(Linear)))

\* TriangularLinearElement.shape_function_derivatives
LinearShapeFunctionDerivatives(node_index, position, coordinate_index) ==
    IF node_index = 0
    THEN ByCoordinate(Linear, coordinate_index, -1 * PosDen, -1 * PosDen)
    ELSE IF node_index = 1
    THEN ByCoordinate(Linear, coordinate_index, 1 * PosDen, 0)
    ELSE IF node_index = 2
    THEN ByCoordinate(Linear, coordinate_index, 0, 1 * PosDen)
    ELSE Raised(InvalidNodeError(node_index, NodeQuantity(Linear)))

\* Quadratic shape function derivatives with the wrong coordinate in the
\* derivative of the first midside function.
QuadraticShapeFunctionDerivativesSlip(node_index, position, coordinate_index) ==
    IF node_index = 0
    THEN ByCoordinate(Quadratic, coordinate_index,
                      4 * position[1] + 4 * position[2] - 3 * PosDen,
                      4 * position[1] + 4 * position[2] - 3 * PosDen)
    ELSE IF node_index = 1
    THEN ByCoordinate(Quadratic, coordinate_index, 4 * position[1] - 1 * PosDen, 0)
    ELSE IF node_index = 2
    THEN ByCoordinate(Quadratic, coordinate_index, 0, 4 * position[2] - 1 * PosDen)
    ELSE IF node_index = 3
    THEN ByCoordinate(Quadratic, coordinate_index,
                      -8 * position[1] - 4 * position[2] + 4 * PosDen,
                      -4 * position[2])
    ELSE IF node_index = 4
    THEN ByCoordinate(Quadratic, coordinate_index, 4 * position[2], 4 * position[1])
    ELSE IF node_index = 5
    THEN ByCoordinate(Quadratic, coordinate_index,
                      -4 * position[2],
                      -4 * position[1] - 8 * position[2] + 4 * PosDen)
    ELSE Raised(InvalidNodeError(node_index, NodeQuantity(Quadratic)))

\* TriangularQuadraticElement.shape_function_derivatives
QuadraticShapeFunctionDerivatives(node_index, position, coordinate_index) ==
    IF node_index = 0
    THEN ByCoordinate(Quadratic, coordinate_index,
                      4 * position[1] + 4 * position[2] - 3 * PosDen,
                      4 * position[1] + 4 * position[2] - 3 * PosDen)
    ELSE IF node_index = 1
    THEN ByCoordinate(Quadratic, coordinate_index, 4 * position[1] - 1 * PosDen, 0)
    ELSE IF node_index = 2
    THEN ByCoordinate(Quadratic, coordinate_index, 0, 4 * position[2] - 1 * PosDen)
    ELSE IF node_index = 3
    THEN ByCoordinate(Quadratic, coordinate_index,
                      -8 * position[1] - 4 * position[2] + 4 * PosDen,
                      -4 * position[1])
    ELSE IF node_index = 4
    THEN ByCoordinate(Quadratic, coordinate_index, 4 * position[2], 4 * position[1])
    ELSE IF node_index = 5
    THEN ByCoordinate(Quadratic, coordinate_index,
                      -4 * position[2],
                      -4 * position[1] - 8 * position[2] + 4 * PosDen)
    ELSE Raised(InvalidNodeError(node_index, NodeQuantity(Quadratic)))

\* A lookup of derivatives that tests the coordinate index before the node index.
ShapeFunctionDerivativesCoordinateFirst(cls, node_index, position, coordinate_index) ==
    IF coordinate_index \notin 0..(Dimension(cls) - 1)
    THEN Raised(InvalidCoordinateError(coordinate_index, Dimension(cls)))
    ELSE IF cls = Linear
    THEN LinearShapeFunctionDerivatives(node_index, position, coordinate_index)
    ELSE QuadraticShapeFunctionDerivatives(node_index, position, coordinate_index)

shape_function_derivatives(cls, node_index, position, coordinate_index) ==
    IF cls = Linear
    THEN LinearShapeFunctionDerivatives(node_index, position, coordinate_index)
    ELSE QuadraticShapeFunctionDerivatives(node_index, position, coordinate_index)

\* The indices a caller may pass, in range or not.
NodeIndices(cls) == (0 - IndexMargin)..(NodeQuantity(cls) - 1 + IndexMargin)
CoordinateIndices(cls) == (0 - IndexMargin)..(Dimension(cls) - 1 + IndexMargin)

LookupInit ==
    /\ lk_call = [method |-> "None"]
    /\ lk_result = [kind |-> "None"]

\* One call of cls.shape_functions(node_index, position), made of a state in
\* which no lookup has been made.
CallShapeFunctions ==
    /\ lk_call.method = "None"
    /\ \E cls \in ElementClasses, position \in Positions :
       \E node_index \in NodeIndices(cls) :
           /\ lk_call' = [method |-> "shape_functions", cls |-> cls,
                          node_index |-> node_index, position |-> position]
           /\ lk_result' = shape_functions(cls, node_index, position)
    /\ UNCHANGED <<nm_vars, rd_vars, el_vars, cm_vars, dr_vars>>

\* One call of cls.shape_function_derivatives(node_index, position, coordinate_index).
CallShapeFunctionDerivatives ==
    /\ lk_call.method = "None"
    /\ \E cls \in ElementClasses, position \in Positions :
       \E node_index \in NodeIndices(cls), coordinate_index \in CoordinateIndices(cls) :
           /\ lk_call' = [method |-> "shape_function_derivatives", cls |-> cls,
                          node_index |-> node_index, position |-> position,
                          coordinate_index |-> coordinate_index]
           /\ lk_result' =
                  shape_function_derivatives(cls, node_index, position, coordinate_index)
    /\ UNCHANGED <<nm_vars, rd_vars, el_vars, cm_vars, dr_vars>>

\* The shape functions of every node of the element at one position, as the
\* loops over range(self.node_quantity) evaluate them (elements.py:89-92).
CallShapeFunctionsOfAllNodes ==
    /\ lk_call.method = "None"
    /\ \E cls \in ElementClasses, position \in Positions :
           /\ lk_call' = [method |-> "shape_functions of all nodes", cls |-> cls,
                          position |-> position]
           /\ lk_result' =
                  [kind |-> "list",
                   values |-> [node_index \in 0..(NodeQuantity(cls) - 1) |->
                                  shape_functions(cls, node_index, position)]]
    /\ UNCHANGED <<nm_vars, rd_vars, el_vars, cm_vars, dr_vars>>

NextLookup ==
    CallShapeFunctions \/ CallShapeFunctionDerivatives \/ CallShapeFunctionsOfAllNodes

InitLookup ==
    LookupInit /\ NewtonIdle /\ RandomIdle /\ ElementIdle /\ MaterialIdle /\ DriverIdle

SpecLookup == InitLookup /\ [][NextLookup]_vars

InRange(index, quantity) == index \in 0..(quantity - 1)

(***************************************************************************)
(* C8: for both triangular element classes, shape_function_derivatives     *)
(* returns a value only for an in-range lookup: a node index outside       *)
(* [0, node_quantity) raises the invalid-node error, and a valid node      *)
(* index with a coordinate index outside [0, 2) raises the                 *)
(* invalid-coordinate error, each carrying the offending index and the     *)
(* valid count.                                                            *)
(***************************************************************************)
C8_DerivativeLookupRaisesOutOfRange ==
    lk_call.method = "shape_function_derivatives" =>
        LET cls == lk_call.cls
            node_ok == InRange(lk_call.node_index, NodeQuantity(cls))
            coordinate_ok == InRange(lk_call.coordinate_index, 2)
        IN  /\ ~node_ok =>
                  lk_result = Raised([type |-> "InvalidNodeError",
                                      node_index |-> lk_call.node_index,
                                      node_quantity |-> NodeQuantity(cls)])
            /\ (node_ok /\ ~coordinate_ok) =>
                  lk_result = Raised([type |-> "InvalidCoordinateError",
                                      coordinate_index |-> lk_call.coordinate_index,
                                      coordinate_quantity |-> 2])
            /\ lk_result.kind = "return" => (node_ok /\ coordinate_ok)

\* A valid node of the quadratic element is looked up with coordinate index 2.
C8_Witness ==
    /\ lk_call.method = "shape_function_derivatives"
    /\ lk_call.cls = Quadratic
    /\ lk_call.node_index = 5
    /\ lk_call.coordinate_index = 2
    /\ lk_result.kind = "raise"

(***************************************************************************)
(* C9: TriangularQuadraticElement.shape_functions raises the invalid-node  *)
(* error whenever node_index is outside [0, 6); it never returns normally  *)
(* for such an index.                                                      *)
(***************************************************************************)
C9_QuadraticShapeFunctionsRaise ==
    (/\ lk_call.method = "shape_functions"
     /\ lk_call.cls = Quadratic
     /\ ~InRange(lk_call.node_index, 6)) =>
        /\ lk_result.kind = "raise"
        /\ lk_result.error.type = "InvalidNodeError"

(***************************************************************************)
(* C10: for the linear triangle the three shape functions sum to exactly 1 *)
(* at every parametric point.                                              *)
(***************************************************************************)
C10_LinearShapeFunctionsSumToOne ==
    (/\ lk_call.method = "shape_functions of all nodes"
     /\ lk_call.cls = Linear) =>
        /\ \A node_index \in 0..2 : lk_result.values[node_index].kind = "return"
        /\ lk_result.values[0].value + lk_result.values[1].value
             + lk_result.values[2].value = 1 * ShapeScale

\* The sum is taken at a point where none of the three functions vanishes.
C10_Witness ==
    /\ lk_call.method = "shape_functions of all nodes"
    /\ lk_call.cls = Linear
    /\ \A node_index \in 0..2 : lk_result.values[node_index].value > 0

(***************************************************************************)
(* C19: TriangularLinearElement.shape_functions, called with a node index  *)
(* outside {0, 1, 2}, constructs the invalid-node error and does not raise *)
(* it: the call returns normally, with None.                               *)
(***************************************************************************)
C19_LinearShapeFunctionsReturnNone ==
    (/\ lk_call.method = "shape_functions"
     /\ lk_call.cls = Linear
     /\ ~InRange(lk_call.node_index, 3)) =>
        /\ lk_result.kind = "return_none"
        /\ lk_result = ReturnedNone(InvalidNodeError(lk_call.node_index, 3))

\* The linear shape function of node 3 has been asked for.
C19_Witness ==
    /\ lk_call.method = "shape_functions"
    /\ lk_call.cls = Linear
    /\ lk_call.node_index = 3
    /\ lk_result.kind = "return_none"
    /\ lk_result.constructed.node_index = 3

(***************************************************************************)
(* C20: for both element classes the value shape_function_derivatives      *)
(* returns for a node and a coordinate is the partial derivative of that   *)
(* node's shape function by that coordinate: it equals the central         *)
(* difference of shape_functions over one grid step to either side, which  *)
(* is exact for polynomials of degree at most two.  Shape function values  *)
(* are in units of 1/ShapeScale, derivatives in units of 1/PosDen and the  *)
(* step is 1/PosDen.                                                       *)
(***************************************************************************)
C20_DerivativesOfShapeFunctions ==
    (/\ lk_call.method = "shape_function_derivatives"
     /\ InRange(lk_call.node_index, NodeQuantity(lk_call.cls))
     /\ InRange(lk_call.coordinate_index, 2)) =>
        LET cls == lk_call.cls
            step == IF lk_call.coordinate_index = 0 THEN <<1, 0>> ELSE <<0, 1>>
            ahead == << lk_call.position[1] + step[1], lk_call.position[2] + step[2] >>
            behind == << lk_call.position[1] - step[1], lk_call.position[2] - step[2] >>
        IN  /\ lk_result.kind = "return"
            /\ 2 * lk_result.value =
                   shape_functions(cls, lk_call.node_index, ahead).value
                 - shape_functions(cls, lk_call.node_index, behind).value

\* The derivative of a midside function of the quadratic element has been
\* taken at a point where it depends on the position.
C20_Witness ==
    /\ lk_call.method = "shape_function_derivatives"
    /\ lk_call.cls = Quadratic
    /\ lk_call.node_index = 3
    /\ lk_call.coordinate_index = 1
    /\ lk_call.position = <<HalfDen, 1>>
    /\ lk_result = Returned(-4 * HalfDen)

\* The derivative of a shape function of the linear element has been taken.
C20_WitnessLinear ==
    /\ lk_call.method = "shape_function_derivatives"
    /\ lk_call.cls = Linear
    /\ lk_call.node_index = 0
    /\ lk_call.coordinate_index = 0
    /\ lk_result = Returned(-1 * PosDen)

(***************************************************************************)
(* C29: shape_function_derivatives of both element classes tests the node  *)
(* index before the coordinate index: with both out of range the           *)
(* invalid-node error is raised, and the invalid-coordinate error is       *)
(* raised only for a node index that is in range.                          *)
(***************************************************************************)
C29_NodeIndexCheckedFirst ==
    lk_call.method = "shape_function_derivatives" =>
        LET node_ok == InRange(lk_call.node_index, NodeQuantity(lk_call.cls))
            coordinate_ok == InRange(lk_call.coordinate_index, Dimension(lk_call.cls))
        IN  /\ (~node_ok /\ ~coordinate_ok) =>
                   /\ lk_result.kind = "raise"
                   /\ lk_result.error.type = "InvalidNodeError"
            /\ (lk_result.kind = "raise"
                  /\ lk_result.error.type = "InvalidCoordinateError") => node_ok

\* A derivative has been asked for with both indices out of range.
C29_Witness ==
    /\ lk_call.method = "shape_function_derivatives"
    /\ lk_call.cls = Linear
    /\ lk_call.node_index = 3
    /\ lk_call.coordinate_index = -1
    /\ lk_result = Raised(InvalidNodeError(3, 3))

\* elements.py:407, 488: the class attribute node_positions, in units of 1/PosDen.
ClassNodePositions(cls) ==
    IF cls = Linear
    THEN << <<0, 0>>, <<PosDen, 0>>, <<0, PosDen>> >>
    ELSE << <<0, 0>>, <<PosDen, 0>>, <<0, PosDen>>,
            <<HalfDen, 0>>, <<HalfDen, HalfDen>>, <<0, HalfDen>> >>

(***************************************************************************)
(* C11: for the 6-node quadratic triangle, shape function i evaluated at   *)
(* the class's reference node position j is 1 when i = j and 0 otherwise,  *)
(* for all i, j in 0..5, so the six functions sum to 1 at every node.      *)
(***************************************************************************)
C11_QuadraticKroneckerDelta ==
    (/\ lk_call.method = "shape_functions of all nodes"
     /\ lk_call.cls = Quadratic) =>
        \A j \in 0..5 :
            lk_call.position = ClassNodePositions(Quadratic)[j + 1] =>
                /\ \A i \in 0..5 :
                       lk_result.values[i] =
                           Returned(IF i = j THEN 1 * ShapeScale ELSE 0)
                /\ lk_result.values[0].value + lk_result.values[1].value
                     + lk_result.values[2].value + lk_result.values[3].value
                     + lk_result.values[4].value + lk_result.values[5].value
                       = 1 * ShapeScale

\* The six functions are evaluated at the midside node (.5, .5).
C11_Witness ==
    /\ lk_call.method = "shape_functions of all nodes"
    /\ lk_call.cls = Quadratic
    /\ lk_call.position = ClassNodePositions(Quadratic)[5]
    /\ lk_result.values[4] = Returned(1 * ShapeScale)
    /\ lk_result.values[0] = Returned(0)

(***************************************************************************)
(* The element (elements.BaseElement).  Lists are sequences: the item the  *)
(* source calls list[i] is list[i + 1] here.  Node positions are counted   *)
(* in units of 1/NodeDen and quadrature weights in units of 1/WeightDen.   *)
(* The integrated quantities are stored without their common factors:      *)
(*   strain_energy         times 2 * WeightDen,                            *)
(*   internal_force_array  times 2 * WeightDen * PosDen,                   *)
(*   stiffness_matrix      times 4 * WeightDen * PosDen * PosDen,          *)
(*   jacobian_matrix       times NodeDen * PosDen.                         *)
(***************************************************************************)
NodeDen == 2
WeightDen == 6

RECURSIVE SumFn(_, _)
\* f[0] + ... + f[n - 1]
SumFn(f, n) == IF n = 0 THEN 0 ELSE f[n - 1] + SumFn(f, n - 1)

\* sum(...) over a list
SumSeq(s) == SumFn([k \in 0..(Len(s) - 1) |-> s[k + 1]], Len(s))

\* Node positions whose second and third entries are exchanged.
NodePositionsExchanged ==
    << Row3(0, 0, 0), Row3(0, 1 * NodeDen, 0), Row3(1 * NodeDen, 0, 0),
       Row3(NodeDen \div 2, 0, 0), Row3(NodeDen \div 2, NodeDen \div 2, 0),
       Row3(0, NodeDen \div 2, 0) >>

\* operations.generate_random_node_reference_positions, lines 86-93
node_positions ==
    << Row3(0, 0, 0), Row3(1 * NodeDen, 0, 0), Row3(0, 1 * NodeDen, 0),
       Row3(NodeDen \div 2, 0, 0), Row3(NodeDen \div 2, NodeDen \div 2, 0),
       Row3(0, NodeDen \div 2, 0) >>

\* operations.generate_random_node_reference_positions, lines 94-97, applied
\* to the nodes of an element of class cls
GeneratedNodes(cls) ==
    [node_index \in 1..NodeQuantity(cls) |->
        [reference_position |-> node_positions[node_index],
         current_position |-> node_positions[node_index]]]

\* The driver deforms the body: a stretch of the first coordinate.
DeformedNodes(ns, d) ==
    [k \in 1..Len(ns) |->
        [ns[k] EXCEPT !.current_position =
            [ns[k].reference_position EXCEPT ![0] = ns[k].reference_position[0] * (d + 1)]]]

\* The quadrature schemes (quadrature.py): the one-point rule and the
\* three-point rule of the reference triangle, whose weights sum to 1/2.
QuadratureSchemes ==
    { [point_quantity |-> 1,
       point_positions |-> << <<PosDen \div 3, PosDen \div 3>> >>,
       point_weights |-> << WeightDen \div 2 >>],
      [point_quantity |-> 3,
       point_positions |-> << <<HalfDen, 0>>, <<HalfDen, HalfDen>>, <<0, HalfDen>> >>,
       point_weights |-> << WeightDen \div 6, WeightDen \div 6, WeightDen \div 6 >>] }

\* A quadrature point built from the first position and weight of the scheme.
NewQuadraturePointOfFirst(scheme, point_index) ==
    [position |-> scheme.point_positions[1],
     weight |-> scheme.point_weights[1],
     element |-> "self",
     configuration |-> NoneValue]

\* elements.py:222-224: quadrature.QuadraturePoint(position=..., weight=..., element=self)
NewQuadraturePoint(scheme, point_index) ==
    [position |-> scheme.point_positions[point_index + 1],
     weight |-> scheme.point_weights[point_index + 1],
     element |-> "self",
     configuration |-> NoneValue]

\* quadrature.QuadraturePoint.update_current_configuration: the deformed bases
\* and the constitutive response at the nodes' current positions.
UpdatedQuadraturePoint(qp, d) ==
    [qp EXCEPT !.configuration =
        Some([deformation |-> d,
              basis |-> Matrix3(Row3(1 + d, 0, 0), Row3(0, 1, 0), Row3(0, 0, 1)),
              midsurface_basis |-> Matrix3(Row3(1 + d, 0, 0), Row3(0, 1, 0), Row3(0, 0, 0)),
              kirchhoff_stress |-> Matrix3(Row3(2 * d, d, 0), Row3(d, d, 0), Row3(0, 0, 0)),
              tangent_moduli_effective_2d |->
                  [c1 \in 0..1 |-> [c2 \in 0..1 |-> [c3 \in 0..1 |-> [c4 \in 0..1 |->
                      (IF c1 = c3 /\ c2 = c4 THEN 1 ELSE 0)
                    + (IF c1 = c2 /\ c3 = c4 THEN 1 + d ELSE 0)]]]],
              strain_energy_density |-> d * d])]

\* configurations.ReferenceConfiguration(element=self, quadrature_point=...):
\* the differential area of the reference triangle.
ReferenceConfiguration(ns, qp) ==
    LET p(k) == ns[k].reference_position
        cross == (p(2)[0] - p(1)[0]) * (p(3)[1] - p(1)[1])
               - (p(2)[1] - p(1)[1]) * (p(3)[0] - p(1)[0])
    IN  [quadrature_point |-> qp,
         differential_area |-> Abs(cross) \div (NodeDen * NodeDen)]

\* The derivative with the one of the first node left out.
DerivativeWithoutFirstNode(cls, node_index, position, coordinate_index) ==
    IF node_index = 0
    THEN 0
    ELSE shape_function_derivatives(cls, node_index, position, coordinate_index).value

\* The derivative a lookup with valid indices returns.
Derivative(cls, node_index, position, coordinate_index) ==
    shape_function_derivatives(cls, node_index, position, coordinate_index).value

\* elements.py:143-151
CalculateJacobianMatrix(cls, dofs, ns, qps) ==
    LET quadrature_point == qps[1]
    IN  [dof \in 0..(dofs - 1) |-> [coordinate_index \in 0..(Dimension(cls) - 1) |->
            SumFn([node_index \in 0..(NodeQuantity(cls) - 1) |->
                      ns[node_index + 1].reference_position[dof]
                    * Derivative(cls, node_index, quadrature_point.position,
                                 coordinate_index)],
                  NodeQuantity(cls))]]

\* elements.py:160-163, in units of 1/2: the factor .5 of line 160 is left to
\* the unit, here and in the two arrays below.
CalculateStrainEnergy(t, refconf, qps) ==
    t * refconf.differential_area
      * SumSeq([k \in 1..Len(qps) |->
                   qps[k].configuration.value.strain_energy_density * qps[k].weight])

\* The derivatives of every shape function at one position
\* (elements.py:125, 200-201: self.shape_function_derivatives).
DerivativesAt(cls, position) ==
    [node_index \in 0..(NodeQuantity(cls) - 1) |->
        [coordinate_index \in 0..(Dimension(cls) - 1) |->
            Derivative(cls, node_index, position, coordinate_index)]]

\* elements.py:112-137
CalculateInternalForceArray(cls, dofs, t, refconf, qps) ==
    LET dN == [k \in 1..Len(qps) |-> DerivativesAt(cls, qps[k].position)]
    IN  [dof_1 \in 0..(dofs - 1) |-> [node_index \in 0..(NodeQuantity(cls) - 1) |->
            t * refconf.differential_area
              * SumSeq([k \in 1..Len(qps) |->
                   qps[k].weight
                 * SumFn([dof_2 \in 0..(dofs - 1) |->
                      SumFn([coordinate_index \in 0..(Dimension(cls) - 1) |->
                                qps[k].configuration.value.kirchhoff_stress[coordinate_index][dof_2]
                              * qps[k].configuration.value.basis[dof_2][dof_1]
                              * dN[k][node_index][coordinate_index]],
                            Dimension(cls))],
                      dofs)])]]

\* The integrand with the stress term added for the first value of the
\* fourth coordinate index only.
StiffnessIntegrandStressOnce(cls, qp, dN, dof_1, node_index_1, dof_2, node_index_2) ==
    LET dim == Dimension(cls)
        c == qp.configuration.value
        Term(c1, c2, c3, c4) ==
            ( 4 * c.tangent_moduli_effective_2d[c1][c2][c3][c4]
                * c.midsurface_basis[c2][dof_1] * c.midsurface_basis[c4][dof_2]
            + (IF c4 = 0 THEN c.kirchhoff_stress[c1][c2] ELSE 0)
                * (IF dof_1 = dof_2 THEN 1 ELSE 0) * (IF c2 = c3 THEN 1 ELSE 0) )
            * dN[node_index_1][c1]
            * dN[node_index_2][c3]
    IN  SumFn([c1 \in 0..(dim - 1) |->
          SumFn([c2 \in 0..(dim - 1) |->
            SumFn([c3 \in 0..(dim - 1) |->
              SumFn([c4 \in 0..(dim - 1) |-> Term(c1, c2, c3, c4)], dim)], dim)], dim)], dim)

\* elements.py:189-205: the integrand of one quadrature point, doubled; dN
\* holds the shape function derivatives at the point.
StiffnessIntegrand(cls, qp, dN, dof_1, node_index_1, dof_2, node_index_2) ==
    LET dim == Dimension(cls)
        c == qp.configuration.value
        Term(c1, c2, c3, c4) ==
            ( 4 * c.tangent_moduli_effective_2d[c1][c2][c3][c4]
                * c.midsurface_basis[c2][dof_1] * c.midsurface_basis[c4][dof_2]
            + c.kirchhoff_stress[c1][c2]
                * (IF dof_1 = dof_2 THEN 1 ELSE 0) * (IF c2 = c3 THEN 1 ELSE 0) )
            * dN[node_index_1][c1]
            * dN[node_index_2][c3]
    IN  SumFn([c1 \in 0..(dim - 1) |->
          SumFn([c2 \in 0..(dim - 1) |->
            SumFn([c3 \in 0..(dim - 1) |->
              SumFn([c4 \in 0..(dim - 1) |-> Term(c1, c2, c3, c4)], dim)], dim)], dim)], dim)

\* elements.py:174-216
CalculateStiffnessMatrix(cls, dofs, t, refconf, qps) ==
    LET dN == [k \in 1..Len(qps) |-> DerivativesAt(cls, qps[k].position)]
    IN  [dof_1 \in 0..(dofs - 1) |-> [node_index_1 \in 0..(NodeQuantity(cls) - 1) |->
         [dof_2 \in 0..(dofs - 1) |-> [node_index_2 \in 0..(NodeQuantity(cls) - 1) |->
            t * refconf.differential_area
              * SumSeq([k \in 1..Len(qps) |->
                   qps[k].weight
                 * StiffnessIntegrand(cls, qps[k], dN[k], dof_1, node_index_1,
                                      dof_2, node_index_2)])]]]]

\* elements.py:75-79: the sum of the nodes' current positions over the
\* first dofs coordinates, times 1/3; kept as the sum and the divisor, in
\* units of 1/NodeDen.
LoadPositionVector(ns, dofs) ==
    [sum |-> [dof_index \in 0..2 |->
                 IF dof_index < dofs
                 THEN SumSeq([k \in 1..Len(ns) |-> ns[k].current_position[dof_index]])
                 ELSE 0],
     divisor |-> 3]

\* A vector v / sqrt(norm_sq); a plain vector has norm_sq = 1, and
\* norm_sq = 0 stands for the division by a zero norm.
Scaled(v, norm_sq) == [vector |-> v, norm_sq |-> norm_sq]

\* elements.py:72-83: the load that is integrated.  The unit vector along
\* sum / divisor is sum / |sum|.
EffectiveLoad(ns, dofs, current_load, balloon_internal_pressure) ==
    IF balloon_internal_pressure
    THEN LET v == LoadPositionVector(ns, dofs).sum
         IN  Scaled([i \in 0..2 |-> current_load[2] * v[i]],
                    v[0] * v[0] + v[1] * v[1] + v[2] * v[2])
    ELSE Scaled(current_load, 1)

\* elements.py:84-101, times 2 * WeightDen * ShapeScale
CalculateExternalForceArray(cls, dofs, ns, refconf, qps, current_load, balloon) ==
    LET load == EffectiveLoad(ns, dofs, current_load, balloon)
    IN  Scaled([dof \in 0..(dofs - 1) |-> [node_index \in 0..(NodeQuantity(cls) - 1) |->
                   refconf.differential_area
                     * SumSeq([k \in 1..Len(qps) |->
                          qps[k].weight * load.vector[dof]
                            * shape_functions(cls, node_index, qps[k].position).value])]],
               load.norm_sq)

\* One thing a method did.
Event(op, index) == [op |-> op, index |-> index]

\* The constructor's degrees_of_freedom and thickness arguments (elements.py:39):
\* three displacement components at each node of the membrane, and a thickness
\* other than 1 so that the scaling of the integrals shows.
DegreesOfFreedom == {3}
Thicknesses == {2}

\* elements.py:39-62: the element as its constructor leaves it.
ElementInit ==
    /\ el_pc = "idle"
    /\ el_method = "__init__"
    /\ el_class \in ElementClasses
    /\ quadrature_class \in QuadratureSchemes
    /\ degrees_of_freedom \in DegreesOfFreedom
    /\ thickness \in Thicknesses
    /\ nodes = <<>>
    /\ quadrature_points = <<>>
    /\ jacobian_matrix = NoneValue
    /\ jacobian_matrix_inverse = NoneValue
    /\ reference_configuration = NoneValue
    /\ strain_energy = NoneValue
    /\ internal_force_array = NoneValue
    /\ stiffness_matrix = NoneValue
    /\ external_force_array = NoneValue
    /\ el_index = 0
    /\ el_trace = <<>>
    /\ el_calls = 0
    /\ deformation = 0
    /\ el_load_call = NoneValue

el_fixed == <<el_class, quadrature_class, degrees_of_freedom, thickness>>
el_derived == <<strain_energy, internal_force_array, stiffness_matrix>>
el_once == <<jacobian_matrix, jacobian_matrix_inverse, reference_configuration>>
el_load == <<external_force_array, el_load_call>>
others == <<nm_vars, rd_vars, lk_vars, cm_vars, dr_vars>>

\* The driver attaches the nodes and gives them their positions
\* (operations.generate_random_node_reference_positions).
AttachNodes ==
    /\ el_pc = "idle"
    /\ nodes = <<>>
    /\ nodes' = GeneratedNodes(el_class)
    /\ UNCHANGED <<el_pc, el_method, el_fixed, quadrature_points, el_once, el_derived,
                   el_load, el_index, el_trace, el_calls, deformation>>
    /\ UNCHANGED others

\* The driver moves the nodes to the next deformed state.
DeformNodes ==
    /\ el_pc = "idle"
    /\ nodes # <<>>
    /\ deformation < MaxDeformations
    /\ deformation' = deformation + 1
    /\ nodes' = DeformedNodes(nodes, deformation')
    /\ UNCHANGED <<el_pc, el_method, el_fixed, quadrature_points, el_once, el_derived,
                   el_load, el_index, el_trace, el_calls>>
    /\ UNCHANGED others

\* A call of create_quadrature_points that starts from an empty list.
CreateQuadraturePointsCallClearing ==
    /\ el_pc = "idle"
    /\ Len(nodes) = NodeQuantity(el_class)
    /\ el_calls < MaxCreateCalls
    /\ el_calls' = el_calls + 1
    /\ el_pc' = "create_quadrature_points: loop"
    /\ el_method' = "create_quadrature_points"
    /\ el_index' = 0
    /\ el_trace' = <<>>
    /\ quadrature_points' = <<>>
    /\ UNCHANGED <<el_fixed, nodes, el_once, el_derived, el_load, deformation>>
    /\ UNCHANGED others

\* A call of create_quadrature_points, made after all nodes have been
\* assigned to the element (elements.py:218-220).
CreateQuadraturePointsCall ==
    /\ el_pc = "idle"
    /\ Len(nodes) = NodeQuantity(el_class)
    /\ el_calls < MaxCreateCalls
    /\ el_calls' = el_calls + 1
    /\ el_pc' = "create_quadrature_points: loop"
    /\ el_method' = "create_quadrature_points"
    /\ el_index' = 0
    /\ el_trace' = <<>>
    /\ UNCHANGED <<el_fixed, nodes, quadrature_points, el_once, el_derived,
                   el_load, deformation>>
    /\ UNCHANGED others

\* elements.py:221-225: one pass of the loop over range(point_quantity).
CreateQuadraturePoint ==
    /\ el_pc = "create_quadrature_points: loop"
    /\ el_index < quadrature_class.point_quantity
    /\ quadrature_points' =
           Append(quadrature_points, NewQuadraturePoint(quadrature_class, el_index))
    /\ el_trace' = Append(el_trace, Event("append quadrature_point", el_index))
    /\ el_index' = el_index + 1
    /\ UNCHANGED <<el_pc, el_method, el_fixed, nodes, el_once, el_derived,
                   el_load, el_calls, deformation>>
    /\ UNCHANGED others

\* elements.py:227-228
CreateReferenceConfiguration ==
    /\ el_pc = "create_quadrature_points: loop"
    /\ el_index = quadrature_class.point_quantity
    /\ reference_configuration' =
           Some(ReferenceConfiguration(nodes, quadrature_points[1]))
    /\ el_trace' = Append(el_trace, Event("reference_configuration", 0))
    /\ el_pc' = "create_quadrature_points: calculate_jacobian_matrix"
    /\ UNCHANGED <<el_method, el_fixed, nodes, quadrature_points, jacobian_matrix,
                   jacobian_matrix_inverse, el_derived, el_load, el_index,
                   el_calls, deformation>>
    /\ UNCHANGED others

\* elements.py:229, 139-154
CalculateJacobian ==
    /\ el_pc = "create_quadrature_points: calculate_jacobian_matrix"
    /\ jacobian_matrix' =
           Some(CalculateJacobianMatrix(el_class, degrees_of_freedom, nodes,
                                        quadrature_points))
    /\ el_trace' = Append(el_trace, Event("jacobian_matrix", 0))
    /\ el_pc' = "idle"
    /\ UNCHANGED <<el_method, el_fixed, nodes, quadrature_points,
                   jacobian_matrix_inverse, reference_configuration, el_derived,
                   el_load, el_index, el_calls, deformation>>
    /\ UNCHANGED others

\* A call of update_current_configuration.
UpdateCurrentConfigurationCall ==
    /\ el_pc = "idle"
    /\ el_pc' = "update_current_configuration: loop"
    /\ el_method' = "update_current_configuration"
    /\ el_index' = 0
    /\ el_trace' = <<>>
    /\ UNCHANGED <<el_fixed, nodes, quadrature_points, el_once, el_derived,
                   el_load, el_calls, deformation>>
    /\ UNCHANGED others

\* elements.py:237-238: one pass of the loop over self.quadrature_points.
UpdateQuadraturePoint ==
    /\ el_pc = "update_current_configuration: loop"
    /\ el_index < Len(quadrature_points)
    /\ quadrature_points' =
           [quadrature_points EXCEPT ![el_index + 1] =
               UpdatedQuadraturePoint(quadrature_points[el_index + 1], deformation)]
    /\ el_trace' = Append(el_trace, Event("update quadrature_point", el_index))
    /\ el_index' = el_index + 1
    /\ UNCHANGED <<el_pc, el_method, el_fixed, nodes, el_once, el_derived,
                   el_load, el_calls, deformation>>
    /\ UNCHANGED others

\* elements.py:239: the loop is over, update_element_response is called.
EnterElementResponse ==
    /\ el_pc = "update_current_configuration: loop"
    /\ el_index = Len(quadrature_points)
    /\ el_pc' = "update_element_response"
    /\ el_index' = 1
    /\ UNCHANGED <<el_method, el_fixed, nodes, quadrature_points, el_once, el_derived,
                   el_load, el_trace, el_calls, deformation>>
    /\ UNCHANGED others

\* An order of update_element_response with the first two calls exchanged.
ResponseOrderForceFirst == <<"internal_force_array", "strain_energy", "stiffness_matrix">>

\* elements.py:244-246
ResponseOrder == <<"strain_energy", "internal_force_array", "stiffness_matrix">>

\* The position after a call of update_element_response has returned.
AfterResponseStep ==
    /\ el_pc' = IF el_index = Len(ResponseOrder) THEN "idle" ELSE el_pc
    /\ el_index' = IF el_index = Len(ResponseOrder) THEN el_index ELSE el_index + 1

\* self.reference_configuration.differential_area of an element whose
\* reference_configuration is None
RaiseAttributeError ==
    /\ el_pc' = "AttributeError"
    /\ UNCHANGED <<el_index, el_trace, el_derived>>

\* elements.py:260-262, 156-163
UpdateStrainEnergy ==
    /\ el_pc = "update_element_response"
    /\ ResponseOrder[el_index] = "strain_energy"
    /\ IF reference_configuration = NoneValue
       THEN RaiseAttributeError
       ELSE /\ strain_energy' =
                   Some(CalculateStrainEnergy(thickness, reference_configuration.value,
                                              quadrature_points))
            /\ el_trace' = Append(el_trace, Event("strain_energy", 0))
            /\ AfterResponseStep
            /\ UNCHANGED <<internal_force_array, stiffness_matrix>>
    /\ UNCHANGED <<el_method, el_fixed, nodes, quadrature_points, el_once,
                   el_load, el_calls, deformation>>
    /\ UNCHANGED others

\* elements.py:256-258, 103-137
UpdateInternalForceArray ==
    /\ el_pc = "update_element_response"
    /\ ResponseOrder[el_index] = "internal_force_array"
    /\ IF reference_configuration = NoneValue
       THEN RaiseAttributeError
       ELSE /\ internal_force_array' =
                   Some(CalculateInternalForceArray(el_class, degrees_of_freedom,
                            thickness, reference_configuration.value, quadrature_points))
            /\ el_trace' = Append(el_trace, Event("internal_force_array", 0))
            /\ AfterResponseStep
            /\ UNCHANGED <<strain_energy, stiffness_matrix>>
    /\ UNCHANGED <<el_method, el_fixed, nodes, quadrature_points, el_once,
                   el_load, el_calls, deformation>>
    /\ UNCHANGED others

\* elements.py:264-266, 165-216
UpdateStiffnessMatrix ==
    /\ el_pc = "update_element_response"
    /\ ResponseOrder[el_index] = "stiffness_matrix"
    /\ IF reference_configuration = NoneValue
       THEN RaiseAttributeError
       ELSE /\ stiffness_matrix' =
                   Some(CalculateStiffnessMatrix(el_class, degrees_of_freedom,
                            thickness, reference_configuration.value, quadrature_points))
            /\ el_trace' = Append(el_trace, Event("stiffness_matrix", 0))
            /\ AfterResponseStep
            /\ UNCHANGED <<strain_energy, internal_force_array>>
    /\ UNCHANGED <<el_method, el_fixed, nodes, quadrature_points, el_once,
                   el_load, el_calls, deformation>>
    /\ UNCHANGED others

\* A call of calculate_internal_force_array_old (elements.py:302-335).  With
\* no quadrature point to loop over it returns zeros; otherwise the first
\* integrand reads self.jacobian_matrix_inverse[coordinate_index][dof_2],
\* which fails on None with TypeError.
CallInternalForceArrayOld ==
    /\ el_pc = "idle"
    /\ el_method' = "calculate_internal_force_array_old"
    /\ el_trace' = <<>>
    /\ el_pc' = IF quadrature_points # <<>> /\ jacobian_matrix_inverse = NoneValue
                THEN "TypeError"
                ELSE "idle"
    /\ UNCHANGED <<el_fixed, nodes, quadrature_points, el_once, el_derived,
                   el_load, el_index, el_calls, deformation>>
    /\ UNCHANGED others

\* The loads update_external_force_array is called with.
Loads == {Row3(0, 0, 3), Row3(1, 2, 3)}

\* update_external_force_array that also resets the strain energy.
UpdateExternalForceArrayResetting ==
    /\ el_pc = "idle"
    /\ \E current_load \in Loads, balloon_internal_pressure \in BOOLEAN :
         /\ el_load_call' =
                Some([current_load |-> current_load,
                      balloon_internal_pressure |-> balloon_internal_pressure,
                      load_position_vector |->
                          IF balloon_internal_pressure
                          THEN Some(LoadPositionVector(nodes, degrees_of_freedom))
                          ELSE NoneValue,
                      load |-> EffectiveLoad(nodes, degrees_of_freedom, current_load,
                                             balloon_internal_pressure)])
         /\ external_force_array' =
                Some(CalculateExternalForceArray(el_class, degrees_of_freedom,
                         nodes, reference_configuration.value, quadrature_points,
                         current_load, balloon_internal_pressure))
    /\ el_method' = "update_external_force_array"
    /\ el_trace' = <<>>
    /\ strain_energy' = NoneValue
    /\ UNCHANGED <<el_pc, el_fixed, nodes, quadrature_points, el_once,
                   internal_force_array, stiffness_matrix, el_index, el_calls,
                   deformation>>
    /\ UNCHANGED others

\* elements.py:248-254, 64-101
UpdateExternalForceArray ==
    /\ el_pc = "idle"
    /\ \E current_load \in Loads, balloon_internal_pressure \in BOOLEAN :
         /\ el_load_call' =
                Some([current_load |-> current_load,
                      balloon_internal_pressure |-> balloon_internal_pressure,
                      load_position_vector |->
                          IF balloon_internal_pressure
                          THEN Some(LoadPositionVector(nodes, degrees_of_freedom))
                          ELSE NoneValue,
                      load |-> EffectiveLoad(nodes, degrees_of_freedom, current_load,
                                             balloon_internal_pressure)])
         /\ external_force_array' =
                Some(CalculateExternalForceArray(el_class, degrees_of_freedom,
                         nodes, reference_configuration.value, quadrature_points,
                         current_load, balloon_internal_pressure))
    /\ el_method' = "update_external_force_array"
    /\ el_trace' = <<>>
    /\ UNCHANGED <<el_pc, el_fixed, nodes, quadrature_points, el_once, el_derived,
                   el_index, el_calls, deformation>>
    /\ UNCHANGED others

NextElement ==
    \/ AttachNodes
    \/ DeformNodes
    \/ CreateQuadraturePointsCall
    \/ CreateQuadraturePoint
    \/ CreateReferenceConfiguration
    \/ CalculateJacobian
    \/ UpdateCurrentConfigurationCall
    \/ UpdateQuadraturePoint
    \/ EnterElementResponse
    \/ UpdateStrainEnergy
    \/ UpdateInternalForceArray
    \/ UpdateStiffnessMatrix
    \/ CallInternalForceArrayOld

InitElement ==
    ElementInit /\ NewtonIdle /\ RandomIdle /\ LookupIdle /\ MaterialIdle /\ DriverIdle

SpecElement == InitElement /\ [][NextElement]_vars

\* An element as the driver has set it up for the load steps: the nodes are
\* attached and moved, create_quadrature_points has been called once, and
\* nothing has been updated yet.
LoadInit ==
    /\ el_pc = "idle"
    /\ el_method = "create_quadrature_points"
    /\ el_class \in ElementClasses
    /\ quadrature_class \in QuadratureSchemes
    /\ degrees_of_freedom \in DegreesOfFreedom
    /\ thickness \in Thicknesses
    /\ deformation \in 0..MaxDeformations
    /\ nodes = IF deformation = 0
               THEN GeneratedNodes(el_class)
               ELSE DeformedNodes(GeneratedNodes(el_class), deformation)
    /\ quadrature_points =
           [k \in 1..quadrature_class.point_quantity |->
               NewQuadraturePoint(quadrature_class, k - 1)]
    /\ reference_configuration =
           Some(ReferenceConfiguration(nodes, quadrature_points[1]))
    /\ jacobian_matrix =
           Some(CalculateJacobianMatrix(el_class, degrees_of_freedom, nodes,
                                        quadrature_points))
    /\ jacobian_matrix_inverse = NoneValue
    /\ strain_energy = NoneValue
    /\ internal_force_array = NoneValue
    /\ stiffness_matrix = NoneValue
    /\ external_force_array = NoneValue
    /\ el_index = quadrature_class.point_quantity
    /\ el_trace = [k \in 1..quadrature_class.point_quantity |->
                      Event("append quadrature_point", k - 1)]
                    \o << Event("reference_configuration", 0),
                          Event("jacobian_matrix", 0) >>
    /\ el_calls = 1
    /\ el_load_call = NoneValue

InitLoad ==
    LoadInit /\ NewtonIdle /\ RandomIdle /\ LookupIdle /\ MaterialIdle /\ DriverIdle

NextLoad ==
    \/ UpdateExternalForceArray
    \/ UpdateCurrentConfigurationCall
    \/ UpdateQuadraturePoint
    \/ EnterElementResponse
    \/ UpdateStrainEnergy
    \/ UpdateInternalForceArray
    \/ UpdateStiffnessMatrix

SpecLoad == InitLoad /\ [][NextLoad]_vars

IsPrefix(s, t) == Len(s) <= Len(t) /\ \A k \in 1..Len(s) : s[k] = t[k]

\* The steps of update_current_configuration on an element of n quadrature
\* points, as the claim orders them.
ExpectedUpdateTrace(n) ==
    [k \in 1..n |-> Event("update quadrature_point", k - 1)]
        \o << Event("strain_energy", 0), Event("internal_force_array", 0),
              Event("stiffness_matrix", 0) >>

ElementLevelQuantities == {"strain_energy", "internal_force_array", "stiffness_matrix"}

\* C6: each call of update_current_configuration refreshes every quadrature
\* point in list order before any element-level quantity is recomputed, then
\* reassigns strain_energy, internal_force_array and stiffness_matrix in exactly
\* that order; an element-level quantity is only ever recomputed from quadrature
\* points that were all refreshed in this call, for the nodes' current state.
C6_UpdateOrder ==
    [][el_method' = "update_current_configuration" =>
          /\ IsPrefix(el_trace', ExpectedUpdateTrace(Len(quadrature_points')))
          /\ Len(el_trace') = Len(el_trace) + 1 =>
                LET e == el_trace'[Len(el_trace')]
                IN  /\ e.op = "update quadrature_point" =>
                           /\ quadrature_points'[e.index + 1].configuration # NoneValue
                           /\ quadrature_points'[e.index + 1].configuration.value.deformation
                                  = deformation'
                    /\ e.op \in ElementLevelQuantities =>
                           /\ Len(el_trace) >= Len(quadrature_points')
                           /\ \A k \in 1..Len(quadrature_points') :
                                  /\ el_trace[k] = Event("update quadrature_point", k - 1)
                                  /\ quadrature_points'[k].configuration # NoneValue
                                  /\ quadrature_points'[k].configuration.value.deformation
                                         = deformation'
                    /\ e.op = "strain_energy" =>
                           strain_energy' =
                               Some(CalculateStrainEnergy(thickness',
                                        reference_configuration'.value, quadrature_points'))
                    /\ e.op = "internal_force_array" =>
                           internal_force_array' =
                               Some(CalculateInternalForceArray(el_class',
                                        degrees_of_freedom', thickness',
                                        reference_configuration'.value, quadrature_points'))
                    /\ e.op = "stiffness_matrix" =>
                           stiffness_matrix' =
                               Some(CalculateStiffnessMatrix(el_class',
                                        degrees_of_freedom', thickness',
                                        reference_configuration'.value, quadrature_points'))
         ]_vars

\* A call of update_current_configuration has returned on an element of three
\* quadrature points whose nodes had moved.
C6_Witness ==
    /\ el_method = "update_current_configuration"
    /\ el_pc = "idle"
    /\ deformation > 0
    /\ Len(quadrature_points) = 3
    /\ el_trace = ExpectedUpdateTrace(3)
    /\ strain_energy # NoneValue /\ strain_energy.value > 0
    /\ stiffness_matrix # NoneValue

\* The steps of create_quadrature_points for a scheme of n points, as the
\* claim orders them.
ExpectedCreateTrace(n) ==
    [k \in 1..n |-> Event("append quadrature_point", k - 1)]
        \o << Event("reference_configuration", 0), Event("jacobian_matrix", 0) >>

\* C7: after the first call of create_quadrature_points on a freshly
\* constructed element with all nodes attached, the element owns exactly
\* point_quantity quadrature points, the i-th built from point_positions[i] and
\* point_weights[i] with the element as back-reference; the reference
\* configuration is built from the first of them, and only then is the Jacobian
\* matrix computed, which is not None on return.
C7_CreateQuadraturePointsOnce ==
    (el_calls = 1 /\ el_method = "create_quadrature_points") =>
        LET n == quadrature_class.point_quantity
        IN  /\ IsPrefix(el_trace, ExpectedCreateTrace(n))
            /\ Len(quadrature_points) <= n
            /\ \A k \in 1..Len(quadrature_points) :
                   /\ quadrature_points[k].position = quadrature_class.point_positions[k]
                   /\ quadrature_points[k].weight = quadrature_class.point_weights[k]
                   /\ quadrature_points[k].element = "self"
            /\ reference_configuration # NoneValue =>
                   /\ Len(quadrature_points) = n
                   /\ reference_configuration.value.quadrature_point = quadrature_points[1]
            /\ jacobian_matrix # NoneValue => reference_configuration # NoneValue
            /\ el_pc = "idle" =>
                   /\ Len(quadrature_points) = n
                   /\ reference_configuration # NoneValue
                   /\ jacobian_matrix # NoneValue
                   /\ el_trace = ExpectedCreateTrace(n)

\* The first call of create_quadrature_points has returned on an element with
\* a three-point scheme.
C7_Witness ==
    /\ el_calls = 1
    /\ el_method = "create_quadrature_points"
    /\ el_pc = "idle"
    /\ quadrature_class.point_quantity = 3
    /\ Len(quadrature_points) = 3
    /\ Len(nodes) = NodeQuantity(el_class)
    /\ jacobian_matrix # NoneValue

MaxCoupling == 2

Sign(x) == IF x < 0 THEN -1 ELSE IF x > 0 THEN 1 ELSE 0

\* The fraction n / d with a positive denominator.
Rational(n, d) == IF d < 0 THEN [num |-> -n, den |-> -d] ELSE [num |-> n, den |-> d]

\* Floating-point division of numpy: a zero divisor gives an infinity of the
\* sign of the dividend, or not-a-number for 0 / 0 (den = 0, num the sign).
Divide(n, d) == IF d = 0 THEN [num |-> Sign(n), den |-> 0] ELSE Rational(n, d)

\* a - q for a number a and a quotient q
SubtractFrom(a, q) ==
    IF q.den = 0
    THEN [num |-> -q.num, den |-> 0]
    ELSE [num |-> a * q.den - q.num, den |-> q.den]

\* The quotient r is the finite number n.
IsNumber(r, n) == r.den # 0 /\ r.num = n * r.den

\* tangent_moduli_two_dimensions with the two coupling factors taken from
\* the other index pair.
TangentModuliTwoDimensionsTransposed(C) ==
    [a \in 0..1 |-> [b \in 0..1 |-> [c \in 0..1 |-> [d \in 0..1 |->
        SubtractFrom(C[a][b][c][d],
                     Divide(C[c][d][2][2] * C[2][2][a][b], C[2][2][2][2]))]]]]

\* Neohookean.tangent_moduli_two_dimensions
tangent_moduli_two_dimensions(C) ==
    [a \in 0..1 |-> [b \in 0..1 |-> [c \in 0..1 |-> [d \in 0..1 |->
        SubtractFrom(C[a][b][c][d],
                     Divide(C[a][b][2][2] * C[2][2][c][d], C[2][2][2][2]))]]]]

\* The 3x3x3x3 tensors the condensation is called with: an in-plane block of
\* sixteen different entries, the couplings C[a][b][2][2] and C[2][2][c][d]
\* scaled by p and q, C[2][2][2][2] = D, and r everywhere else.
TangentTensor(s, p, q, D, r) ==
    [i \in 0..2 |-> [j \in 0..2 |-> [k \in 0..2 |-> [l \in 0..2 |->
        IF i = 2 /\ j = 2 /\ k = 2 /\ l = 2 THEN D
        ELSE IF i < 2 /\ j < 2 /\ k < 2 /\ l < 2
             THEN s * (1 + i + 2 * j + 4 * k + 8 * l)
        ELSE IF i < 2 /\ j < 2 /\ k = 2 /\ l = 2 THEN p * (1 + i + 2 * j)
        ELSE IF i = 2 /\ j = 2 /\ k < 2 /\ l < 2 THEN q * (1 + 2 * k + l)
        ELSE r]]]]

\* Tensors with the major symmetry C[i][j][k][l] = C[k][l][i][j]: an in-plane
\* block and couplings that are the same for both index pairs.
SymmetricTangentTensor(s, p, D, r) ==
    [i \in 0..2 |-> [j \in 0..2 |-> [k \in 0..2 |-> [l \in 0..2 |->
        IF i = 2 /\ j = 2 /\ k = 2 /\ l = 2 THEN D
        ELSE IF i < 2 /\ j < 2 /\ k < 2 /\ l < 2
             THEN s * (1 + (i + 2 * j) + (k + 2 * l) + 5 * (i + 2 * j) * (k + 2 * l))
        ELSE IF i < 2 /\ j < 2 /\ k = 2 /\ l = 2 THEN p * (1 + i + 2 * j)
        ELSE IF i = 2 /\ j = 2 /\ k < 2 /\ l < 2 THEN p * (1 + k + 2 * l)
        ELSE r]]]]

TangentTensors ==
    { TangentTensor(s, p, q, D, r) :
        s \in {-1, 1}, p \in 0..MaxCoupling, q \in 0..MaxCoupling,
        D \in (-MaxCoupling)..MaxCoupling, r \in {0, 1} }
      \cup
    { SymmetricTangentTensor(s, p, D, r) :
        s \in {-1, 1}, p \in 0..MaxCoupling,
        D \in (-MaxCoupling)..MaxCoupling, r \in {0, 1} }

CallTangentModuliTwoDimensions ==
    /\ cm_call.method = "None"
    /\ \E C \in TangentTensors :
           /\ cm_call' = [method |-> "tangent_moduli_two_dimensions",
                          tangent_moduli |-> C]
           /\ cm_result' = Returned(tangent_moduli_two_dimensions(C))
    /\ UNCHANGED <<nm_vars, rd_vars, lk_vars, el_vars, dr_vars>>

(***************************************************************************)
(* C13: the plane-stress condensation returns, for in-plane indices, the   *)
(* entry C[a][b][c][d] - C[a][b][2][2] * C[2][2][c][d] / C[2][2][2][2]     *)
(* whenever C[2][2][2][2] is not zero; for a tensor whose couplings        *)
(* C[a][b][2][2] and C[2][2][c][d] are all zero that is the in-plane block *)
(* of the tensor itself, unchanged.                                        *)
(***************************************************************************)
C13_CondensationOfTangentModuli ==
    cm_call.method = "tangent_moduli_two_dimensions" =>
        LET C == cm_call.tangent_moduli
            D == C[2][2][2][2]
            decoupled == \A a \in 0..1, b \in 0..1 :
                             C[a][b][2][2] = 0 /\ C[2][2][a][b] = 0
        IN  D # 0 =>
                \A a \in 0..1, b \in 0..1, c \in 0..1, d \in 0..1 :
                    LET r == cm_result.value[a][b][c][d]
                    IN  /\ r.den # 0
                        /\ r.num * D =
                             (C[a][b][c][d] * D - C[a][b][2][2] * C[2][2][c][d]) * r.den
                        /\ decoupled => IsNumber(r, C[a][b][c][d])

\* A tensor without coupling has been condensed and an entry of its in-plane
\* block came back as it was.
C13_Witness ==
    /\ cm_call.method = "tangent_moduli_two_dimensions"
    /\ cm_call.tangent_moduli[2][2][2][2] = 2
    /\ \A a \in 0..1, b \in 0..1 :
           /\ cm_call.tangent_moduli[a][b][2][2] = 0
           /\ cm_call.tangent_moduli[2][2][a][b] = 0
    /\ cm_call.tangent_moduli[1][0][1][1] = 14
    /\ IsNumber(cm_result.value[1][0][1][1], 14)

\* A tensor with coupling has been condensed and an entry changed.
C13_WitnessCoupled ==
    /\ cm_call.method = "tangent_moduli_two_dimensions"
    /\ cm_call.tangent_moduli[2][2][2][2] = 2
    /\ cm_call.tangent_moduli[0][1][2][2] # 0
    /\ cm_call.tangent_moduli[2][2][1][0] # 0
    /\ ~IsNumber(cm_result.value[0][1][1][0], cm_call.tangent_moduli[0][1][1][0])

(***************************************************************************)
(* Strain energy density and first Piola-Kirchhoff stress.  A value is     *)
(* (c0 + c1 * L + c2 * L^2) / den with L = math.log(J) kept as a symbol:   *)
(* for an integer J > 1 the powers of L are independent over the           *)
(* rationals, so two values are equal exactly when their coefficients are. *)
(* math.log(1.0) is 0.0, so the terms in L vanish when J = 1.              *)
(***************************************************************************)
MaxModulus == 2
MaxEntry == 1

ValueError == [type |-> "ValueError"]
VerificationError == [type |-> "VerificationError"]

LogValue(c0, c1, c2, den) == [c0 |-> c0, c1 |-> c1, c2 |-> c2, den |-> den]

\* The value of an expression in math.log(J) at the determinant J > 0.
AtLog(x, J) == IF J = 1 THEN LogValue(x.c0, 0, 0, x.den) ELSE x

SameValue(x, y) ==
    /\ x.c0 * y.den = y.c0 * x.den
    /\ x.c1 * y.den = y.c1 * x.den
    /\ x.c2 * y.den = y.c2 * x.den

Identity3 == Matrix3(Row3(1, 0, 0), Row3(0, 1, 0), Row3(0, 0, 1))

\* matrix.T
Transpose3(M) == [i \in 0..2 |-> [j \in 0..2 |-> M[j][i]]]

\* The signed minor of M at (i, j).
Cofactor3(M, i, j) ==
    LET i1 == (i + 1) % 3
        i2 == (i + 2) % 3
        j1 == (j + 1) % 3
        j2 == (j + 2) % 3
    IN  M[i1][j1] * M[i2][j2] - M[i1][j2] * M[i2][j1]

\* numpy.linalg.inv, as the numerators over the common denominator Det3(M)
InverseNumerators(M) == [i \in 0..2 |-> [j \in 0..2 |-> Cofactor3(M, j, i)]]

\* operations.inverse_transpose without the transposition
InverseTransposeNotTransposed(matrix) == InverseNumerators(matrix)

\* operations.inverse_transpose, numerators over Det3(matrix)
inverse_transpose(matrix) == InverseNumerators(Transpose3(matrix))

\* numpy.trace(numpy.dot(F.T, F))
TraceOfSquare(F) ==
      F[0][0] * F[0][0] + F[0][1] * F[0][1] + F[0][2] * F[0][2]
    + F[1][0] * F[1][0] + F[1][1] * F[1][1] + F[1][2] * F[1][2]
    + F[2][0] * F[2][0] + F[2][1] * F[2][1] + F[2][2] * F[2][2]

\* The energy expression with the offset 3 of the trace term left out.
StrainEnergyTermsWithoutOffset(material, F) ==
    LogValue(material.shear_modulus * TraceOfSquare(F),
             -2 * material.shear_modulus,
             material.first_lame_parameter,
             2)

\* lambda / 2 * L^2 - mu * L + mu / 2 * (trace - 3), over the denominator 2
StrainEnergyTerms(material, F) ==
    LogValue(material.shear_modulus * (TraceOfSquare(F) - 3),
             -2 * material.shear_modulus,
             material.first_lame_parameter,
             2)

\* Neohookean.strain_energy_density; math.log raises for J <= 0
strain_energy_density(material, F) ==
    LET J == Det3(F)
    IN  IF J <= 0
        THEN Raised(ValueError)
        ELSE Returned(AtLog(StrainEnergyTerms(material, F), J))

\* F with the entry (i, j) moved by h
Perturbed(F, i, j, h) == [F EXCEPT ![i][j] = F[i][j] + h]

\* The partial derivative of the strain energy density by F[i][j] at a
\* matrix of determinant J > 0.  The energy is a polynomial in the entries
\* of F and in L; the determinant is of degree one and the trace term of
\* degree two in F[i][j], so their central differences over a step of 1 are
\* exact, and dL = dJ / J.
StrainEnergyDerivative(material, F, i, j) ==
    LET J == Det3(F)
        w == StrainEnergyTerms(material, F)
        Dc0 == StrainEnergyTerms(material, Perturbed(F, i, j, 1)).c0
                 - StrainEnergyTerms(material, Perturbed(F, i, j, -1)).c0
        DJ == Det3(Perturbed(F, i, j, 1)) - Det3(Perturbed(F, i, j, -1))
    IN  AtLog(LogValue(J * Dc0 + w.c1 * DJ, 2 * w.c2 * DJ, 0, 2 * w.den * J), J)

\* tests.numerical_differentiation_first_piola_kirchhoff_stress: whether the
\* stress agrees with the derivative of the strain energy density
numerical_differentiation_first_piola_kirchhoff_stress(material, F, stress) ==
    \A i \in 0..2, j \in 0..2 :
        SameValue(stress[i][j], StrainEnergyDerivative(material, F, i, j))

\* Neohookean.first_piola_kirchhoff_stress; the entries have denominator J
first_piola_kirchhoff_stress(material, F, dimension, test) ==
    LET J == Det3(F)
        invT == inverse_transpose(F)
        result == [i \in 0..2 |-> [j \in 0..2 |->
                      AtLog(LogValue(material.shear_modulus * F[i][j] * J
                                       - material.shear_modulus * invT[i][j],
                                     material.first_lame_parameter * invT[i][j],
                                     0,
                                     J),
                            J)]]
    IN  IF J <= 0
        THEN Raised(ValueError)
        ELSE IF test /\ ~numerical_differentiation_first_piola_kirchhoff_stress(
                             material, F, result)
        THEN Raised(VerificationError)
        ELSE IF dimension = 2
        THEN Returned([i \in 0..1 |-> [j \in 0..1 |-> result[i][j]]])
        ELSE Returned(result)

\* The partial derivative of the first Piola-Kirchhoff stress entry (i, j)
\* by F[k][l], over the denominator 2 * J^2.  J * P[i][j] is
\* (lambda L - mu) cof[i][j] + mu J F[i][j]; the determinant and the
\* cofactors are of degree one in F[k][l], so their central differences over
\* a step of 1 are exact, and dL = dJ / J.
StressDerivative(material, F, i, j, k, l) ==
    LET lambda == material.first_lame_parameter
        mu == material.shear_modulus
        J == Det3(F)
        cof == inverse_transpose(F)[i][j]
        DJ == Det3(Perturbed(F, k, l, 1)) - Det3(Perturbed(F, k, l, -1))
        Dcof == inverse_transpose(Perturbed(F, k, l, 1))[i][j]
                  - inverse_transpose(Perturbed(F, k, l, -1))[i][j]
        same == IF i = k /\ j = l THEN 1 ELSE 0
        p0 == mu * J * F[i][j] - mu * cof
        p1 == lambda * cof
    IN  AtLog(LogValue(lambda * DJ * cof - J * mu * Dcof
                         + J * mu * (DJ * F[i][j] + 2 * J * same) - p0 * DJ,
                       J * lambda * Dcof - p1 * DJ,
                       0,
                       2 * J * J),
              J)

\* tests.numerical_differentiation_tangent_moduli: whether the moduli agree
\* with the derivative of the stress
numerical_differentiation_tangent_moduli(material, F, moduli) ==
    \A i \in 0..2, j \in 0..2, k \in 0..2, l \in 0..2 :
        SameValue(moduli[i][j][k][l], StressDerivative(material, F, i, j, k, l))

\* The product x * y of two values that are of degree at most one in L.
Times(x, y) ==
    LogValue(x.c0 * y.c0, x.c0 * y.c1 + x.c1 * y.c0, x.c1 * y.c1, x.den * y.den)

\* x - y for two values of the same denominator
Minus(x, y) == LogValue(x.c0 - y.c0, x.c1 - y.c1, x.c2 - y.c2, x.den)

\* tangent_moduli_two_dimensions on the moduli of tangent_moduli: the entry
\* A - B * C / D is kept as the quotient of A * D - B * C by D, whose terms all
\* have the denominator of D squared.
TangentModuliTwoDimensionsOfLog(C) ==
    [a \in 0..1 |-> [b \in 0..1 |-> [c \in 0..1 |-> [d \in 0..1 |->
        [num |-> Minus(Times(C[a][b][c][d], C[2][2][2][2]),
                       Times(C[a][b][2][2], C[2][2][c][d])),
         den |-> C[2][2][2][2]]]]]]

\* The moduli with the two inverse entries of the second term taken from
\* the wrong side.
TangentModuliEntryMisplaced(material, F_inverse, J, i, j, k, l) ==
    LogValue(material.first_lame_parameter * F_inverse[l][k] * F_inverse[j][i]
               + material.shear_modulus * F_inverse[j][k] * F_inverse[i][l]
               + (IF i = k /\ j = l THEN material.shear_modulus * J * J ELSE 0),
             -(material.first_lame_parameter * F_inverse[j][k] * F_inverse[i][l]),
             0,
             J * J)

\* constitutive_models.py:106-111: one entry, over the denominator J^2;
\* F_inverse holds the numerators of numpy.linalg.inv over J
TangentModuliEntry(material, F_inverse, J, i, j, k, l) ==
    LogValue(material.first_lame_parameter * F_inverse[l][k] * F_inverse[j][i]
               + material.shear_modulus * F_inverse[j][k] * F_inverse[l][i]
               + (IF i = k /\ j = l THEN material.shear_modulus * J * J ELSE 0),
             -(material.first_lame_parameter * F_inverse[j][k] * F_inverse[l][i]),
             0,
             J * J)

LinAlgError == [type |-> "LinAlgError"]

\* Neohookean.tangent_moduli; numpy.linalg.inv raises for a singular matrix
\* and math.log for a negative determinant
tangent_moduli(material, F, dimension, test) ==
    LET J == Det3(F)
        F_inverse == InverseNumerators(F)
        moduli == [i \in 0..2 |-> [j \in 0..2 |-> [k \in 0..2 |-> [l \in 0..2 |->
                      AtLog(TangentModuliEntry(material, F_inverse, J, i, j, k, l),
                            J)]]]]
    IN  IF J = 0 THEN Raised(LinAlgError)
        ELSE IF J < 0 THEN Raised(ValueError)
        ELSE IF test /\ ~numerical_differentiation_tangent_moduli(material, F, moduli)
        THEN Raised(VerificationError)
        ELSE IF dimension = 2
        THEN Returned(TangentModuliTwoDimensionsOfLog(moduli))
        ELSE Returned(moduli)

ModulusValues == (-1)..MaxModulus

Materials ==
    [first_lame_parameter : ModulusValues, shear_modulus : ModulusValues]

EntryOffsets == (-1)..MaxEntry

\* The deformation gradients the functions are called with: the identity
\* moved by an offset in five of its entries.
DeformationGradients ==
    { Matrix3(Row3(1 + a, b, 0), Row3(c, 1, d), Row3(e, 0, 1)) :
        a \in EntryOffsets, b \in EntryOffsets, c \in EntryOffsets,
        d \in EntryOffsets, e \in EntryOffsets }

CallStrainEnergyDensity ==
    /\ cm_call.method = "None"
    /\ \E material \in Materials, F \in DeformationGradients :
           /\ cm_call' = [method |-> "strain_energy_density",
                          material |-> material,
                          deformation_gradient |-> F]
           /\ cm_result' = strain_energy_density(material, F)
    /\ UNCHANGED <<nm_vars, rd_vars, lk_vars, el_vars, dr_vars>>

CallFirstPiolaKirchhoffStress ==
    /\ cm_call.method = "None"
    /\ \E material \in Materials, F \in DeformationGradients,
          dimension \in {2, 3}, test \in BOOLEAN :
           /\ cm_call' = [method |-> "first_piola_kirchhoff_stress",
                          material |-> material,
                          deformation_gradient |-> F,
                          dimension |-> dimension,
                          test |-> test]
           /\ cm_result' = first_piola_kirchhoff_stress(material, F, dimension, test)
    /\ UNCHANGED <<nm_vars, rd_vars, lk_vars, el_vars, dr_vars>>

\* The deformation gradients tangent_moduli is called with: those without
\* the entry [1][2] and with 0 or 1 at [2][0], each call computing 81 entries.
ModuliGradients ==
    { F \in DeformationGradients : F[1][2] = 0 /\ F[2][0] \in {0, 1} }

CallTangentModuli ==
    /\ cm_call.method = "None"
    /\ \E material \in Materials, F \in ModuliGradients,
          dimension \in {2, 3}, test \in BOOLEAN :
           /\ cm_call' = [method |-> "tangent_moduli",
                          material |-> material,
                          deformation_gradient |-> F,
                          dimension |-> dimension,
                          test |-> test]
           /\ cm_result' = tangent_moduli(material, F, dimension, test)
    /\ UNCHANGED <<nm_vars, rd_vars, lk_vars, el_vars, dr_vars>>

InitMaterial ==
    MaterialIdle /\ NewtonIdle /\ RandomIdle /\ LookupIdle /\ ElementIdle /\ DriverIdle

NextMaterial ==
    \/ CallTangentModuliTwoDimensions
    \/ CallStrainEnergyDensity
    \/ CallFirstPiolaKirchhoffStress
    \/ CallTangentModuli

SpecMaterial == InitMaterial /\ [][NextMaterial]_vars

(***************************************************************************)
(* C15: for the identity deformation gradient strain_energy_density        *)
(* returns zero, whatever the two material constants are.                  *)
(***************************************************************************)
C15_NoEnergyAtIdentity ==
    (/\ cm_call.method = "strain_energy_density"
     /\ cm_call.deformation_gradient = Identity3)
        => /\ cm_result.kind = "return"
           /\ SameValue(cm_result.value, LogValue(0, 0, 0, 1))

\* The energy of the identity has been computed for two constants that are
\* not zero.
C15_Witness ==
    /\ cm_call.method = "strain_energy_density"
    /\ cm_call.deformation_gradient = Identity3
    /\ cm_call.material.first_lame_parameter = 2
    /\ cm_call.material.shear_modulus = 1
    /\ cm_result = Returned(LogValue(0, 0, 0, 2))

(***************************************************************************)
(* C16: for a deformation gradient of positive determinant every entry of  *)
(* the stress returned by first_piola_kirchhoff_stress, which is           *)
(* (lambda ln J - mu) F^-T + mu F, equals the partial derivative of the    *)
(* strain energy density by the same entry of the deformation gradient.    *)
(***************************************************************************)
C16_StressIsEnergyDerivative ==
    (/\ cm_call.method = "first_piola_kirchhoff_stress"
     /\ Det3(cm_call.deformation_gradient) > 0
     /\ cm_result.kind = "return")
        => \A i \in 0..(cm_call.dimension - 1), j \in 0..(cm_call.dimension - 1) :
               SameValue(cm_result.value[i][j],
                         StrainEnergyDerivative(cm_call.material,
                                                cm_call.deformation_gradient,
                                                i, j))

\* The stress of a deformation gradient that is not symmetric and changes
\* the volume has been computed, and an off-diagonal entry of it is not zero.
C16_Witness ==
    /\ cm_call.method = "first_piola_kirchhoff_stress"
    /\ cm_call.dimension = 3
    /\ ~cm_call.test
    /\ Det3(cm_call.deformation_gradient) > 1
    /\ cm_call.deformation_gradient[0][1] # cm_call.deformation_gradient[1][0]
    /\ cm_call.material.first_lame_parameter = 2
    /\ cm_call.material.shear_modulus = 1
    /\ cm_result.kind = "return"
    /\ cm_result.value[0][1].c1 # 0
    /\ cm_result.value[0][1].c1 # cm_result.value[1][0].c1

(***************************************************************************)
(* C14: the Jacobian matrix of a TriangularLinearElement does not depend   *)
(* on the quadrature point used: calculate_jacobian_matrix run with any    *)
(* quadrature point of the element, or any point of any scheme, in place   *)
(* of the first one gives the matrix the element holds.                    *)
(***************************************************************************)
C14_LinearJacobianSameAtEveryPoint ==
    (el_class = Linear /\ jacobian_matrix # NoneValue) =>
        /\ \A k \in 1..Len(quadrature_points) :
               CalculateJacobianMatrix(Linear, degrees_of_freedom, nodes,
                                       << quadrature_points[k] >>)
                 = jacobian_matrix.value
        /\ \A scheme \in QuadratureSchemes :
               \A k \in 1..scheme.point_quantity :
                   CalculateJacobianMatrix(Linear, degrees_of_freedom, nodes,
                                           << NewQuadraturePoint(scheme, k - 1) >>)
                     = jacobian_matrix.value

\* A linear element with three quadrature points at different positions holds
\* its Jacobian matrix.
C14_Witness ==
    /\ el_class = Linear
    /\ el_pc = "idle"
    /\ jacobian_matrix # NoneValue
    /\ Len(quadrature_points) >= 3
    /\ quadrature_points[1].position # quadrature_points[3].position
    /\ jacobian_matrix.value[0][0] = NodeDen * PosDen
    /\ jacobian_matrix.value[1][1] = NodeDen * PosDen

(***************************************************************************)
(* C18: when the Newton solve fails, the error it raises carries the       *)
(* number of iterations attempted, which is the number of stress           *)
(* evaluations (and of stretch updates) made before giving up, the         *)
(* residual |P33| of the last evaluation, and the tolerance.               *)
(***************************************************************************)
C18_ErrorCarriesIterationsAttempted ==
    nm_pc = "raised" =>
        /\ nm_exception.type = "NewtonMethodMaxIterationsExceededError"
        /\ nm_exception.iterations = nm_evaluations
        /\ nm_exception.iterations = current_iteration + 1
        /\ nm_exception.error = Abs(nm_P33)
        /\ nm_exception.tolerance = NEWTON_METHOD_TOLERANCE

(***************************************************************************)
(* The driver (model_io.py): run and the scenario it calls.  Entries of    *)
(* the matrix the scenario sweeps are in units of 1/SweepDen.              *)
(***************************************************************************)
SweepDen == 10
SweepStart == 1             \* .1
SweepStop == 100            \* 10
SweepStep == 5              \* .5

\* The least integer not below n / d, for d > 0.
CeilDiv(n, d) == (n + d - 1) \div d

\* numpy.arange(start, stop, step): ceil((stop - start) / step) values, the
\* k-th of them start + k * step.
Arange(start, stop, step) ==
    [k \in 1..CeilDiv(stop - start, step) |-> start + (k - 1) * step]

\* The scenarios run() calls, in order (the other calls are commented out).
ScenariosOfRun == << "uniaxial_deformation" >>

\* What body.DeformationGradient(..., plane_stress=True) can do: it runs the
\* Newton solve for the thickness stretch, which returns, or raises the
\* iteration-limit error, or fails in math.log; no error is caught.
BodyOutcomes ==
    {"returned", "NewtonMethodMaxIterationsExceededError", "ValueError"}

\* The body built from the matrix F.
Body(F) == [F00 |-> F[0][0], plane_stress |-> TRUE]

\* first_piola_kirchhoff_stress[0][0] of the body built for one sweep value.
P11(f11_value) == [P11_of |-> f11_value]

\* The module-level call of run(), and run() calling the scenario.
Run ==
    /\ dr_pc = "idle"
    /\ dr_scenarios' = Append(dr_scenarios, ScenariosOfRun[1])
    /\ dr_pc' = "uniaxial_deformation: setup"
    /\ UNCHANGED <<f11_values, dr_index, dr_random_deformation, p11_values,
                   dr_bodies, dr_evaluations, dr_exception>>
    /\ UNCHANGED <<nm_vars, rd_vars, lk_vars, el_vars, cm_vars>>

\* model_io.py:140-150
UniaxialSetup ==
    /\ dr_pc = "uniaxial_deformation: setup"
    /\ dr_random_deformation' =
           Matrix3(Row3(0, 0, 0), Row3(0, 1 * SweepDen, 0), Row3(0, 0, 1 * SweepDen))
    /\ f11_values' = Arange(SweepStart, SweepStop, SweepStep)
    /\ p11_values' = <<>>
    /\ dr_index' = 1
    /\ dr_pc' = "uniaxial_deformation: for"
    /\ UNCHANGED <<dr_scenarios, dr_bodies, dr_evaluations, dr_exception>>
    /\ UNCHANGED <<nm_vars, rd_vars, lk_vars, el_vars, cm_vars>>

\* model_io.py:152-153: the next value of the sweep, or the end of the loop,
\* of the scenario and of run().
UniaxialNextValue ==
    /\ dr_pc = "uniaxial_deformation: for"
    /\ IF dr_index <= Len(f11_values)
       THEN /\ dr_random_deformation' =
                   [dr_random_deformation EXCEPT ![0][0] = f11_values[dr_index]]
            /\ dr_pc' = "uniaxial_deformation: body"
       ELSE /\ dr_pc' = "done"
            /\ UNCHANGED dr_random_deformation
    /\ UNCHANGED <<dr_scenarios, f11_values, dr_index, p11_values, dr_bodies,
                   dr_evaluations, dr_exception>>
    /\ UNCHANGED <<nm_vars, rd_vars, lk_vars, el_vars, cm_vars>>

\* model_io.py:154-157
UniaxialConstructBody ==
    /\ dr_pc = "uniaxial_deformation: body"
    /\ \E outcome \in BodyOutcomes :
           IF outcome = "returned"
           THEN /\ dr_bodies' = Append(dr_bodies, Body(dr_random_deformation))
                /\ dr_pc' = "uniaxial_deformation: stress"
                /\ UNCHANGED dr_exception
           ELSE /\ dr_exception' = [type |-> outcome]
                /\ dr_pc' = "raised"
                /\ UNCHANGED dr_bodies
    /\ UNCHANGED <<dr_scenarios, f11_values, dr_index, dr_random_deformation,
                   p11_values, dr_evaluations>>
    /\ UNCHANGED <<nm_vars, rd_vars, lk_vars, el_vars, cm_vars>>

\* model_io.py:158-161
UniaxialEvaluateStress ==
    /\ dr_pc = "uniaxial_deformation: stress"
    /\ dr_evaluations' = dr_evaluations + 1
    /\ dr_pc' = "uniaxial_deformation: append"
    /\ UNCHANGED <<dr_scenarios, f11_values, dr_index, dr_random_deformation,
                   p11_values, dr_bodies, dr_exception>>
    /\ UNCHANGED <<nm_vars, rd_vars, lk_vars, el_vars, cm_vars>>

\* model_io.py:162
UniaxialAppend ==
    /\ dr_pc = "uniaxial_deformation: append"
    /\ p11_values' = Append(p11_values, P11(dr_random_deformation[0][0]))
    /\ dr_index' = dr_index + 1
    /\ dr_pc' = "uniaxial_deformation: for"
    /\ UNCHANGED <<dr_scenarios, f11_values, dr_random_deformation, dr_bodies,
                   dr_evaluations, dr_exception>>
    /\ UNCHANGED <<nm_vars, rd_vars, lk_vars, el_vars, cm_vars>>

InitDriver ==
    DriverIdle /\ NewtonIdle /\ RandomIdle /\ LookupIdle /\ ElementIdle /\ MaterialIdle

NextDriver ==
    \/ Run
    \/ UniaxialSetup
    \/ UniaxialNextValue
    \/ UniaxialConstructBody
    \/ UniaxialEvaluateStress
    \/ UniaxialAppend

SpecDriver == InitDriver /\ [][NextDriver]_vars

\* The program has ended, normally or with an error.
DriverEnded == dr_pc \in {"done", "raised"}

\* The values .1, .6, ... of the sweep: twenty, the last one 9.6.
SweepValues == [k \in 1..20 |-> 1 + 5 * (k - 1)]

\* The part of the sweep done so far: one body, one stress evaluation and one
\* recorded stress per value, in the order of the sweep.
SweepSoFar ==
    /\ dr_pc # "idle" => dr_scenarios = << "uniaxial_deformation" >>
    /\ dr_pc \notin {"idle", "uniaxial_deformation: setup"} =>
           /\ f11_values = SweepValues
           /\ f11_values[20] = 96 /\ f11_values[20] < 10 * SweepDen
           /\ Len(p11_values) <= Len(f11_values)
           /\ \A k \in 1..Len(p11_values) : p11_values[k] = P11(f11_values[k])
           /\ \A k \in 1..Len(dr_bodies) :
                  dr_bodies[k] = [F00 |-> f11_values[k], plane_stress |-> TRUE]
           /\ Len(dr_bodies) \in {Len(p11_values), Len(p11_values) + 1}
           /\ dr_evaluations \in {Len(p11_values), Len(p11_values) + 1}
           /\ dr_evaluations <= Len(dr_bodies)

(***************************************************************************)
(* C17: running the driver invokes exactly one scenario,                   *)
(* uniaxial_deformation, which sweeps F[0][0] over .1, .6, 1.1, ... in     *)
(* steps of .5 below 10 (twenty values, the last 9.6) in increasing order, *)
(* constructs one plane-stress body and evaluates the stress once for each *)
(* value, and appends one P[0][0] for each value, so that p11_values ends  *)
(* with twenty entries in the order of the sweep.                          *)
(***************************************************************************)
C17_SweepRecordsTwentyValues ==
    /\ SweepSoFar
    /\ DriverEnded =>
           /\ Len(p11_values) = 20
           /\ Len(dr_bodies) = 20
           /\ dr_evaluations = 20

\* As long as no body construction fails, the scenario is the sweep of C17,
\* and a run that ends normally has recorded the twenty values.
SweepWithoutFailure ==
    /\ SweepSoFar
    /\ dr_pc = "done" =>
           /\ Len(p11_values) = 20
           /\ Len(dr_bodies) = 20
           /\ dr_evaluations = 20
    /\ dr_pc = "raised" =>
           /\ Len(p11_values) < 20
           /\ dr_exception.type \in BodyOutcomes \ {"returned"}

(***************************************************************************)
(* C23: the Newton solve changes the caller's deformation_gradient in      *)
(* place and only at [2][2].  The other eight entries are never written;   *)
(* [2][2] receives the trial stretch before each evaluation, the first     *)
(* time the initial guess 1 whatever the caller left there; after a normal *)
(* return [2][2] is the returned stretch; the stretch update and the raise *)
(* of the iteration-limit error write nothing, so after the error [2][2]   *)
(* is still the last trial value.                                          *)
(***************************************************************************)
C23_OnlyStretchEntryWritten ==
    /\ [][ /\ \A i \in 0..2, j \in 0..2 :
                  (i # 2 \/ j # 2) =>
                      deformation_gradient'[i][j] = deformation_gradient[i][j]
           /\ nm_pc = "loop" => deformation_gradient'[2][2] = stretch_ratio
           /\ nm_pc # "loop" => deformation_gradient' = deformation_gradient
         ]_vars
    /\ [](nm_evaluations = 1 => deformation_gradient[2][2] = 1 * StretchScale)
    /\ [](nm_pc = "returned" => deformation_gradient[2][2] = stretch_ratio)
    /\ []((nm_pc = "raised" /\ max_iterations = 0) =>
              deformation_gradient[2][2] = 1 * StretchScale)

\* The solve has failed on a matrix with entries off the diagonal, and the
\* matrix holds a trial value that is neither what the caller passed nor the
\* stretch the last update produced.
C23_Witness ==
    /\ nm_pc = "raised"
    /\ deformation_gradient[0][1] = 1
    /\ deformation_gradient[1][1] = 2
    /\ deformation_gradient[2][2] # stretch_ratio
    /\ deformation_gradient[2][2] \notin IncomingStretch

(***************************************************************************)
(* C24: the Newton solve evaluates P33 at most max_iterations + 1 times.   *)
(* The iteration-limit error is raised only after max_iterations + 1       *)
(* evaluations that all missed the tolerance, each followed by a stretch   *)
(* update; the stretch the last update produced is never evaluated; and a  *)
(* residual below the tolerance at any of the evaluations                  *)
(* 1..max_iterations + 1 makes the solve return.                           *)
(***************************************************************************)
C24_EvaluationBudget ==
    /\ nm_evaluations <= max_iterations + 1
    /\ nm_pc = "update" =>
           /\ ~Converged(nm_error)
           /\ nm_evaluations = current_iteration + 1
    /\ nm_pc = "loop" => nm_evaluations = current_iteration
    /\ nm_pc = "raised" =>
           /\ nm_evaluations = max_iterations + 1
           /\ current_iteration = max_iterations
           /\ ~Converged(nm_error)
           /\ ~ENABLED NewtonTrial
    /\ nm_pc = "returned" =>
           /\ Converged(nm_error)
           /\ nm_evaluations = current_iteration + 1
           /\ nm_evaluations \in 1..(max_iterations + 1)

\* The solve returned at the last evaluation its budget allows.
C24_Witness ==
    /\ nm_pc = "returned"
    /\ max_iterations = 2
    /\ nm_evaluations = max_iterations + 1

\* The solve failed and left a stretch it never evaluated.
C24_WitnessRaised ==
    /\ nm_pc = "raised"
    /\ max_iterations = 1
    /\ nm_evaluations = 2
    /\ stretch_ratio # deformation_gradient[2][2]

(***************************************************************************)
(* C27: the tangent moduli have the major symmetry: for an invertible      *)
(* deformation gradient and any material constants the entry [i][j][k][l]  *)
(* of tangent_moduli equals the entry [k][l][i][j], and the plane-stress   *)
(* condensation keeps the symmetry: the condensed entry [a][b][c][d]       *)
(* equals the condensed entry [c][d][a][b], for the moduli of              *)
(* tangent_moduli and for every tensor that has the major symmetry.        *)
(***************************************************************************)
C27_MajorSymmetry ==
    /\ (cm_call.method = "tangent_moduli" /\ cm_result.kind = "return") =>
           IF cm_call.dimension = 3
           THEN \A i \in 0..2, j \in 0..2, k \in 0..2, l \in 0..2 :
                    SameValue(cm_result.value[i][j][k][l], cm_result.value[k][l][i][j])
           ELSE \A a \in 0..1, b \in 0..1, c \in 0..1, d \in 0..1 :
                    /\ cm_result.value[a][b][c][d].den = cm_result.value[c][d][a][b].den
                    /\ cm_result.value[a][b][c][d].num = cm_result.value[c][d][a][b].num
    /\ (cm_call.method = "tangent_moduli" /\ Det3(cm_call.deformation_gradient) > 0) =>
           cm_result.kind = "return"
    /\ cm_call.method = "tangent_moduli_two_dimensions" =>
           LET C == cm_call.tangent_moduli
           IN  (/\ C[2][2][2][2] # 0
                /\ \A i \in 0..2, j \in 0..2, k \in 0..2, l \in 0..2 :
                       C[i][j][k][l] = C[k][l][i][j])
                   => \A a \in 0..1, b \in 0..1, c \in 0..1, d \in 0..1 :
                          cm_result.value[a][b][c][d].num * cm_result.value[c][d][a][b].den
                            = cm_result.value[c][d][a][b].num * cm_result.value[a][b][c][d].den

\* The moduli of a deformation gradient that is not symmetric and changes the
\* volume have been computed, and two entries that the symmetry pairs are
\* not zero.
C27_Witness ==
    /\ cm_call.method = "tangent_moduli"
    /\ cm_call.dimension = 3
    /\ ~cm_call.test
    /\ Det3(cm_call.deformation_gradient) > 1
    /\ cm_call.deformation_gradient[0][1] # cm_call.deformation_gradient[1][0]
    /\ cm_call.material.first_lame_parameter = 2
    /\ cm_call.material.shear_modulus = 1
    /\ cm_result.kind = "return"
    /\ cm_result.value[0][1][1][0].c1 # 0
    /\ cm_result.value[0][0][0][1].c0 # 0

\* The moduli of such a deformation gradient have been condensed.
C27_WitnessCondensed ==
    /\ cm_call.method = "tangent_moduli"
    /\ cm_call.dimension = 2
    /\ Det3(cm_call.deformation_gradient) > 1
    /\ cm_call.deformation_gradient[0][1] # cm_call.deformation_gradient[1][0]
    /\ cm_result.kind = "return"
    /\ cm_result.value[0][0][0][1].num.c1 # 0

\* A symmetric tensor with coupling has been condensed.
C27_WitnessTensor ==
    /\ cm_call.method = "tangent_moduli_two_dimensions"
    /\ cm_call.tangent_moduli[2][2][2][2] = 2
    /\ cm_call.tangent_moduli[0][1][2][2] = 3
    /\ cm_call.tangent_moduli[2][2][0][1] = 3
    /\ \A i \in 0..2, j \in 0..2, k \in 0..2, l \in 0..2 :
           cm_call.tangent_moduli[i][j][k][l] = cm_call.tangent_moduli[k][l][i][j]

(***************************************************************************)
(* C21: in the balloon-pressure case of calculate_external_force_array the *)
(* centroid is the mean of the nodes' current positions, the component-    *)
(* wise sum over the element's nodes divided by the element's node count,  *)
(* for the 3-node and the 6-node element alike, and the load is replaced   *)
(* by current_load[2] times the unit vector along that centroid.           *)
(***************************************************************************)
C21_BalloonCentroidIsMeanPosition ==
    (el_load_call # NoneValue /\ el_load_call.value.balloon_internal_pressure) =>
        LET call == el_load_call.value
            centroid == call.load_position_vector.value
        IN  /\ \A i \in 0..2 :
                 centroid.sum[i] =
                     SumSeq([k \in 1..Len(nodes) |-> nodes[k].current_position[i]])
            /\ centroid.divisor = NodeQuantity(el_class)
            /\ centroid.divisor = Len(nodes)
            /\ call.load.vector = [i \in 0..2 |-> call.current_load[2] * centroid.sum[i]]
            /\ call.load.norm_sq = centroid.sum[0] * centroid.sum[0]
                                     + centroid.sum[1] * centroid.sum[1]
                                     + centroid.sum[2] * centroid.sum[2]

(***************************************************************************)
(* C22: after create_quadrature_points the element holds the inverse of    *)
(* its Jacobian matrix: jacobian_matrix_inverse is set whenever            *)
(* jacobian_matrix is set, so that the legacy internal-force formulation,  *)
(* which indexes jacobian_matrix_inverse, can be evaluated.                *)
(***************************************************************************)
C22_JacobianInverseHeld ==
    /\ jacobian_matrix # NoneValue => jacobian_matrix_inverse # NoneValue
    /\ el_method = "calculate_internal_force_array_old" => el_pc # "TypeError"

\* The nine basis matrices and the six stress matrices with a single entry 1:
\* the integrand of the internal force is linear in the stress and in the
\* basis, so these span every Kirchhoff stress and every basis.
UnitBases ==
    { [i \in 0..2 |-> [j \in 0..2 |-> IF i = a /\ j = b THEN 1 ELSE 0]] :
        a \in 0..2, b \in 0..2 }

UnitStresses ==
    { [i \in 0..2 |-> [j \in 0..2 |-> IF i = a /\ j = b THEN 1 ELSE 0]] :
        a \in 0..1, b \in 0..2 }

\* The quadrature points with the given stress and basis at every point.
WithStressAndBasis(qps, stress, basis) ==
    [k \in 1..Len(qps) |->
        [qps[k] EXCEPT !.configuration =
            Some([qps[k].configuration.value EXCEPT !.kirchhoff_stress = stress,
                                                    !.basis = basis])]]

\* The sum over the nodes of the entries of one dof.
SumOverNodes(force_array, cls, dof) ==
    SumFn([node_index \in 0..(NodeQuantity(cls) - 1) |-> force_array[dof][node_index]],
          NodeQuantity(cls))

(***************************************************************************)
(* C25: the internal force array is self-equilibrated.  For both element   *)
(* types and whatever the Kirchhoff stresses, bases, quadrature positions, *)
(* weights, thickness and area, the entries of each dof sum to 0 over the  *)
(* nodes, because the shape function derivatives sum to 0 over the nodes   *)
(* for each coordinate at every point.                                     *)
(***************************************************************************)
C25_InternalForceSelfEquilibrated ==
    /\ \A k \in 1..Len(quadrature_points), coordinate_index \in 0..(Dimension(el_class) - 1) :
         SumFn([node_index \in 0..(NodeQuantity(el_class) - 1) |->
                   Derivative(el_class, node_index, quadrature_points[k].position,
                              coordinate_index)],
               NodeQuantity(el_class)) = 0
    /\ internal_force_array # NoneValue =>
         \A dof \in 0..(degrees_of_freedom - 1) :
            SumOverNodes(internal_force_array.value, el_class, dof) = 0
    /\ (el_pc = "idle" /\ el_method = "update_current_configuration") =>
         \A stress \in UnitStresses, basis \in UnitBases, dof \in 0..(degrees_of_freedom - 1) :
            SumOverNodes(CalculateInternalForceArray(el_class, degrees_of_freedom, thickness,
                             reference_configuration.value,
                             WithStressAndBasis(quadrature_points, stress, basis)),
                         el_class, dof) = 0

C25_Witness ==
    /\ el_class = Quadratic
    /\ quadrature_class.point_quantity = 3
    /\ el_pc = "idle"
    /\ el_method = "update_current_configuration"
    /\ internal_force_array # NoneValue
    /\ \E node_index \in 0..5 : internal_force_array.value[0][node_index] # 0
    /\ \E node_index \in 0..5 : internal_force_array.value[1][node_index] # 0

C25_WitnessLinear ==
    /\ el_class = Linear
    /\ el_pc = "idle"
    /\ el_method = "update_current_configuration"
    /\ internal_force_array # NoneValue
    /\ \E node_index \in 0..2 : internal_force_array.value[0][node_index] # 0

\* The quadrature point with the tangent moduli set to zero, which leaves the
\* stress term of the stiffness integrand.
WithoutTangentModuli(qp) ==
    [qp EXCEPT !.configuration =
        Some([qp.configuration.value EXCEPT !.tangent_moduli_effective_2d =
                 [c1 \in 0..1 |-> [c2 \in 0..1 |-> [c3 \in 0..1 |-> [c4 \in 0..1 |-> 0]]]]])]

\* The quadrature point with the Kirchhoff stress set to zero, which leaves
\* the material term of the stiffness integrand.
WithoutStress(qp) ==
    [qp EXCEPT !.configuration =
        Some([qp.configuration.value EXCEPT !.kirchhoff_stress =
                 [i \in 0..2 |-> [j \in 0..2 |-> 0]]])]

\* sum over c1, c2 of kirchhoff_stress[c1][c2] * delta(d1, d2) * dN_n1/dc1 * dN_n2/dc2
StressSum(cls, qp, dN, dof_1, node_index_1, dof_2, node_index_2) ==
    LET dim == Dimension(cls)
    IN  SumFn([c1 \in 0..(dim - 1) |->
          SumFn([c2 \in 0..(dim - 1) |->
                    qp.configuration.value.kirchhoff_stress[c1][c2]
                  * (IF dof_1 = dof_2 THEN 1 ELSE 0)
                  * dN[node_index_1][c1] * dN[node_index_2][c2]], dim)], dim)

(***************************************************************************)
(* C26: in calculate_stiffness_matrix the stress term is accumulated once  *)
(* for each value of the fourth coordinate index, so that at each          *)
(* quadrature point its contribution to integrand[d1][n1][d2][n2] is       *)
(* dimension * 0.5 * sum over c1, c2 of kirchhoff_stress[c1][c2]           *)
(* * delta(d1, d2) * dN_n1/dc1 * dN_n2/dc2: the stress enters with the net *)
(* coefficient 1 for these elements of dimension 2.  The integrand of the  *)
(* model is twice the one of the code, so the factor 0.5 is a factor 1.    *)
(***************************************************************************)
C26_StressTermOncePerFourthIndex ==
    (el_pc = "idle" /\ el_method = "update_current_configuration"
        /\ stiffness_matrix # NoneValue) =>
        \A k \in 1..Len(quadrature_points) :
            LET qp == quadrature_points[k]
                dN == DerivativesAt(el_class, qp.position)
            IN  \A dof_1 \in 0..(degrees_of_freedom - 1),
                   dof_2 \in 0..(degrees_of_freedom - 1),
                   node_index_1 \in 0..(NodeQuantity(el_class) - 1),
                   node_index_2 \in 0..(NodeQuantity(el_class) - 1) :
                    LET stress_sum == StressSum(el_class, qp, dN, dof_1, node_index_1,
                                                dof_2, node_index_2)
                    IN  /\ StiffnessIntegrand(el_class, WithoutTangentModuli(qp), dN,
                                              dof_1, node_index_1, dof_2, node_index_2)
                             = Dimension(el_class) * stress_sum
                        /\ Dimension(el_class) * stress_sum = 2 * stress_sum
                        /\ StiffnessIntegrand(el_class, qp, dN,
                                              dof_1, node_index_1, dof_2, node_index_2)
                             = StiffnessIntegrand(el_class, WithoutStress(qp), dN,
                                                  dof_1, node_index_1, dof_2, node_index_2)
                                 + Dimension(el_class) * stress_sum

C26_Witness ==
    /\ el_pc = "idle"
    /\ el_method = "update_current_configuration"
    /\ stiffness_matrix # NoneValue
    /\ el_class = Quadratic
    /\ LET qp == quadrature_points[1]
           dN == DerivativesAt(el_class, qp.position)
       IN  /\ qp.configuration.value.kirchhoff_stress[0][1] # 0
           /\ StressSum(el_class, qp, dN, 1, 0, 1, 1) # 0
           /\ StressSum(el_class, qp, dN, 0, 0, 1, 1) = 0

\* The points of the first call of create_quadrature_points: one per point
\* of the scheme.
PointsOfOneCall == SubSeq(quadrature_points, 1, quadrature_class.point_quantity)

(***************************************************************************)
(* C28: create_quadrature_points is not idempotent.  It appends to the     *)
(* list it finds, so after k calls on one element quadrature_points holds  *)
(* k * point_quantity points, each point of the scheme k times, and every  *)
(* quantity integrated afterwards (strain energy, internal force, external *)
(* force, stiffness) counts each point of the scheme k times.              *)
(***************************************************************************)
C28_CreateQuadraturePointsAppends ==
    LET n == quadrature_class.point_quantity
    IN  /\ el_pc = "idle" =>
            /\ Len(quadrature_points) = el_calls * n
            /\ \A m \in 1..Len(quadrature_points) :
                 /\ quadrature_points[m].position
                      = quadrature_class.point_positions[((m - 1) % n) + 1]
                 /\ quadrature_points[m].weight
                      = quadrature_class.point_weights[((m - 1) % n) + 1]
        /\ (el_pc = "idle" /\ el_method = "update_current_configuration"
              /\ stiffness_matrix # NoneValue) =>
            LET refconf == reference_configuration.value
            IN  /\ strain_energy.value
                     = el_calls * CalculateStrainEnergy(thickness, refconf, PointsOfOneCall)
                /\ LET once == CalculateInternalForceArray(el_class, degrees_of_freedom,
                                   thickness, refconf, PointsOfOneCall)
                   IN  \A dof \in 0..(degrees_of_freedom - 1),
                          node_index \in 0..(NodeQuantity(el_class) - 1) :
                           internal_force_array.value[dof][node_index]
                             = el_calls * once[dof][node_index]
                /\ LET once == CalculateStiffnessMatrix(el_class, degrees_of_freedom,
                                   thickness, refconf, PointsOfOneCall)
                   IN  \A dof_1 \in 0..(degrees_of_freedom - 1),
                          dof_2 \in 0..(degrees_of_freedom - 1),
                          node_index_1 \in 0..(NodeQuantity(el_class) - 1),
                          node_index_2 \in 0..(NodeQuantity(el_class) - 1) :
                           stiffness_matrix.value[dof_1][node_index_1][dof_2][node_index_2]
                             = el_calls * once[dof_1][node_index_1][dof_2][node_index_2]
                /\ \A current_load \in Loads, balloon_internal_pressure \in BOOLEAN :
                     LET all == CalculateExternalForceArray(el_class, degrees_of_freedom,
                                    nodes, refconf, quadrature_points, current_load,
                                    balloon_internal_pressure)
                         once == CalculateExternalForceArray(el_class, degrees_of_freedom,
                                    nodes, refconf, PointsOfOneCall, current_load,
                                    balloon_internal_pressure)
                     IN  /\ all.norm_sq = once.norm_sq
                         /\ \A dof \in 0..(degrees_of_freedom - 1),
                               node_index \in 0..(NodeQuantity(el_class) - 1) :
                                all.vector[dof][node_index]
                                  = el_calls * once.vector[dof][node_index]

C28_Witness ==
    /\ el_pc = "idle"
    /\ el_method = "update_current_configuration"
    /\ el_calls = 2
    /\ quadrature_class.point_quantity = 3
    /\ Len(quadrature_points) = 6
    /\ quadrature_points[4].position = quadrature_points[1].position
    /\ stiffness_matrix # NoneValue
    /\ strain_energy.value > 0
    /\ \E node_index \in 0..(NodeQuantity(el_class) - 1) :
         internal_force_array.value[0][node_index] # 0

\* The same list of the same quadrature points: only what a point holds for
\* the current configuration may differ.
SamePoints(before, after) ==
    /\ Len(after) = Len(before)
    /\ \A k \in 1..Len(before) :
         /\ after[k].position = before[k].position
         /\ after[k].weight = before[k].weight
         /\ after[k].element = before[k].element

\* The last thing the running method did is the assignment of this field.
JustAssigned(field) ==
    /\ el_method' = "update_current_configuration"
    /\ Len(el_trace') = Len(el_trace) + 1
    /\ el_trace'[Len(el_trace')] = Event(field, 0)

(***************************************************************************)
(* C30: the update operations of the element have disjoint write sets.     *)
(* update_current_configuration / update_element_response assign only      *)
(* strain_energy, internal_force_array and stiffness_matrix and leave      *)
(* external_force_array, jacobian_matrix, reference_configuration, the     *)
(* list of nodes and the list of quadrature points as they are;            *)
(* update_external_force_array assigns only external_force_array; and      *)
(* before the first such update each of these derived fields is None.      *)
(***************************************************************************)
C30_DisjointWriteSets ==
    /\ strain_energy = NoneValue
    /\ internal_force_array = NoneValue
    /\ stiffness_matrix = NoneValue
    /\ external_force_array = NoneValue
    /\ [][/\ el_method' = "update_current_configuration" =>
               /\ UNCHANGED <<external_force_array, jacobian_matrix,
                              jacobian_matrix_inverse, reference_configuration, nodes,
                              el_fixed>>
               /\ SamePoints(quadrature_points, quadrature_points')
          /\ el_method' = "update_external_force_array" =>
               UNCHANGED <<strain_energy, internal_force_array, stiffness_matrix,
                           jacobian_matrix, jacobian_matrix_inverse,
                           reference_configuration, nodes, quadrature_points, el_fixed>>
          /\ strain_energy' # strain_energy =>
               /\ JustAssigned("strain_energy")
               /\ UNCHANGED <<internal_force_array, stiffness_matrix>>
          /\ internal_force_array' # internal_force_array =>
               /\ JustAssigned("internal_force_array")
               /\ UNCHANGED <<strain_energy, stiffness_matrix>>
          /\ stiffness_matrix' # stiffness_matrix =>
               /\ JustAssigned("stiffness_matrix")
               /\ UNCHANGED <<strain_energy, internal_force_array>>
          /\ external_force_array' # external_force_array =>
               el_method' = "update_external_force_array"
         ]_vars

C30_Witness ==
    /\ el_pc = "idle"
    /\ el_method = "update_external_force_array"
    /\ deformation = 1
    /\ stiffness_matrix # NoneValue
    /\ strain_energy # NoneValue /\ strain_energy.value > 0
    /\ external_force_array # NoneValue
    /\ el_load_call.value.balloon_internal_pressure
    /\ external_force_array.value.vector[0][1] # 0

C30_WitnessUpdateAfterLoad ==
    /\ el_pc = "idle"
    /\ el_method = "update_current_configuration"
    /\ external_force_array # NoneValue
    /\ external_force_array.value.vector[2][0] # 0
    /\ internal_force_array # NoneValue
    /\ \E node_index \in 0..(NodeQuantity(el_class) - 1) :
         internal_force_array.value[0][node_index] # 0

====
